---------------------------- MODULE Spec2Model ----------------------------
(***************************************************************************)
(* Attendance extraction and persistence of the DTR application.           *)
(*                                                                         *)
(* Cell texts, time-of-day texts and month texts are TLA+ strings.  A      *)
(* JavaScript `undefined` is the string UNDEF, an Invalid Date is the      *)
(* number NaN.  A time text of the model is "HH:MM" or "HH:MM:SS": times    *)
(* and their differences are whole seconds, for which the millisecond      *)
(* differences of the source are exact; the durations in minutes and in    *)
(* hours that the source forms of them by division are doubles.            *)
(***************************************************************************)
EXTENDS Integers, Sequences, FiniteSets, TLC

\* ------------------------------------------------------------------------
\* JavaScript values
\* ------------------------------------------------------------------------
UNDEF == "<undefined>"
NaN == 0 - 1
NULL == 0 - 2

Falsy(x) == x \in {"", UNDEF}
Truthy(x) == ~Falsy(x)

\* x || "" on a string or undefined
OrEmpty(x) == IF Falsy(x) THEN "" ELSE x

Digits == <<"0", "1", "2", "3", "4", "5", "6", "7", "8", "9">>

RECURSIVE NumStr(_)
\* String(n) for a non-negative integer
NumStr(n) == IF n < 10 THEN Digits[n + 1]
             ELSE NumStr(n \div 10) \o Digits[(n % 10) + 1]

\* String(n).padStart(2, "0")
Pad2(n) == IF n < 10 THEN "0" \o NumStr(n) ELSE NumStr(n)

\* `${h}h ${String(m).padStart(2, "0")}m`
HM(h, m) == NumStr(h) \o "h " \o Pad2(m) \o "m"

Max(a, b) == IF a > b THEN a ELSE b

\* ------------------------------------------------------------------------
\* Calendar (JavaScript Date in local time)
\* ------------------------------------------------------------------------
IsLeap(y) == (y % 4 = 0 /\ y % 100 # 0) \/ y % 400 = 0

MonthLen(y, m) == IF m = 2 THEN (IF IsLeap(y) THEN 29 ELSE 28)
                  ELSE IF m \in {4, 6, 9, 11} THEN 30 ELSE 31

\* new Date(year, monthNum, 0).getDate(): day 0 of the month after monthNum,
\* with the month overflow of the Date constructor
JsDaysInMonth(year, monthNum) ==
    MonthLen(year + ((monthNum - 1) \div 12), ((monthNum - 1) % 12) + 1)

SakamotoT == <<0, 3, 2, 5, 0, 3, 5, 1, 4, 6, 2, 4>>

\* new Date(year, monthNum - 1, day).getDay(): 0 = Sunday .. 6 = Saturday
JsGetDay(year, monthNum, day) ==
    LET y == IF monthNum < 3 THEN year - 1 ELSE year
    IN (y + (y \div 4) - (y \div 100) + (y \div 400)
          + SakamotoT[monthNum] + day) % 7

ShortNames == <<"Sun", "Mon", "Tue", "Wed", "Thu", "Fri", "Sat">>

\* `${pad(day)} ${date.toLocaleString("en-US", {weekday: "short"})}`
FormatDateWeekday(year, monthNum, day) ==
    Pad2(day) \o " " \o ShortNames[JsGetDay(year, monthNum, day) + 1]

\* `${year}-${String(monthNum).padStart(2, "0")}`
MonthText(year, monthNum) == NumStr(year) \o "-" \o Pad2(monthNum)

ModelYears == 2025..2027
ModelMonths == {[y |-> y, m |-> m] : y \in ModelYears, m \in 1..12}

\* month.split("-") followed by parseInt of both parts
SplitMonth(month) ==
    CHOOSE ym \in ModelMonths : MonthText(ym.y, ym.m) = month

\* ------------------------------------------------------------------------
\* Time-of-day texts
\* ------------------------------------------------------------------------
MinuteSteps == {0, 6, 10, 15, 19, 30, 45, 46, 55}

TimeText(h, m) == Pad2(h) \o ":" \o Pad2(m)

\* The times of day written with seconds
SecondTimes == {<<8, 59, 45>>, <<16, 0, 20>>}

\* The time texts with the second of the day each names
ClockTable ==
    {<<TimeText(h, m), 3600 * h + 60 * m>> : h \in 0..23, m \in MinuteSteps}
    \cup {<<TimeText(hms[1], hms[2]) \o ":" \o Pad2(hms[3]),
            3600 * hms[1] + 60 * hms[2] + hms[3]>> : hms \in SecondTimes}

ClockTexts == {entry[1] : entry \in ClockTable}

ClockSeconds ==
    [s \in ClockTexts |-> (CHOOSE entry \in ClockTable : entry[1] = s)[2]]

\* new Date(`${dateString} ${text}`) for a non-empty text: the second of the
\* day (the times of one call share the date), or NaN (Invalid Date) when
\* the text is no time of day
ParseTime(text) == IF text \in ClockTexts THEN ClockSeconds[text] ELSE NaN

\* text ? new Date(...) : null
TimeOrNull(text) == IF Truthy(text) THEN ParseTime(text) ELSE NULL

\* in && out && !isNaN(in) && !isNaN(out) && out > in ? out - in : 0, in
\* seconds (a comparison with an Invalid Date is false)
PairSeconds(inT, outT) ==
    IF inT # NULL /\ outT # NULL /\ inT # NaN /\ outT # NaN /\ outT > inT
    THEN outT - inT ELSE 0

\* String(record.undertime_excel).match(/^(\d+):(\d+)$/)
UtTexts == {NumStr(h) \o ":" \o Pad2(m) : h \in 0..3, m \in MinuteSteps}

UtMatch(text) ==
    IF text \in UtTexts
    THEN CHOOSE p \in (0..3) \X MinuteSteps :
             NumStr(p[1]) \o ":" \o Pad2(p[2]) = text
    ELSE <<>>


\* ------------------------------------------------------------------------
\* Durations in minutes and in hours (IEEE-754 doubles)
\* ------------------------------------------------------------------------
\* A double d with 0 <= d < 4096 that is a multiple of 2^-60 is the sequence
\* of its six base-4096 digits: the whole part, then sixty fractional bits.
\* Every double the calculators form from durations of at least a quarter
\* of a minute is such a number.
FixZero == <<0, 0, 0, 0, 0, 0>>

RECURSIVE FixCarry(_, _, _)
\* The digits brought back into 0..4095, the carries (or borrows) moving to
\* the left
FixCarry(digits, i, carry) ==
    IF i = 0 THEN digits
    ELSE FixCarry([digits EXCEPT ![i] = (digits[i] + carry) % 4096], i - 1,
                  (digits[i] + carry) \div 4096)

\* The number of bits of a digit
BitLength(n) == CHOOSE b \in 0..12 : n < 2^b /\ (b = 0 \/ n >= 2^(b - 1))

\* The position of the leading bit of a number that is not zero (the bit of
\* 2^-60 has position 0)
TopBit(x) ==
    LET i == CHOOSE j \in 1..6 : x[j] # 0 /\ \A q \in 1..(j - 1) : x[q] = 0
    IN 12 * (6 - i) + BitLength(x[i]) - 1

\* The last 24 bits of a number rounded to a multiple of 2^c, to nearest and
\* ties to even; `inexact` says that the number is the truncation of a larger one
RoundTail(tail, c, inexact) ==
    LET low == tail % (2^c)
        half == 2^(c - 1)
        odd == ((tail - low) \div (2^c)) % 2 = 1
    IN IF low > half \/ (low = half /\ (inexact \/ odd))
       THEN tail - low + 2^c
       ELSE tail - low

RoundAt(x, c, inexact) ==
    IF c <= 0 THEN x
    ELSE FixCarry(<<x[1], x[2], x[3], x[4], 0,
                    RoundTail(x[5] * 4096 + x[6], c, inexact)>>, 6, 0)

\* The double nearest to an exact result: 53 significant bits are kept
RoundToDouble(x, inexact) ==
    IF x = FixZero THEN x ELSE RoundAt(x, TopBit(x) - 52, inexact)

RECURSIVE LongDivision(_, _, _, _)
\* The long division of a whole number by a divisor, digit by digit
LongDivision(digits, i, remainder, divisor) ==
    IF i > 6 THEN RoundToDouble(digits, remainder # 0)
    ELSE LongDivision([digits EXCEPT ![i] = (remainder * 4096) \div divisor],
                      i + 1, (remainder * 4096) % divisor, divisor)

\* n / divisor of two whole numbers
DoubleOfRatio(n, divisor) ==
    LongDivision(<<n \div divisor, 0, 0, 0, 0, 0>>, 2, n % divisor, divisor)

\* (out.getTime() - in.getTime()) / (1000 * 60) for times a whole number of
\* seconds apart
DurationMinutes(seconds) == DoubleOfRatio(seconds, 60)

\* (out.getTime() - in.getTime()) / (1000 * 60 * 60)
DurationHours(seconds) == DoubleOfRatio(seconds, 60 * 60)

\* x + y of two doubles
DoubleSum(x, y) ==
    RoundToDouble(FixCarry([i \in 1..6 |-> x[i] + y[i]], 6, 0), FALSE)

\* n - x of a whole number and a double below it
DoubleDifference(n, x) ==
    RoundToDouble(FixCarry(<<n - x[1], 0 - x[2], 0 - x[3], 0 - x[4], 0 - x[5],
                             0 - x[6]>>, 6, 0), FALSE)

\* (x % 1) * 60
FractionTimes60(x) ==
    RoundToDouble(FixCarry(<<0, 60 * x[2], 60 * x[3], 60 * x[4], 60 * x[5],
                              60 * x[6]>>, 6, 0), FALSE)

\* Math.round(x): the nearest integer, a tie going up
MathRound(x) == x[1] + (IF x[2] >= 2048 THEN 1 ELSE 0)

\* `${Math.floor(x / 60)}h ${String(Math.round(x % 60)).padStart(2, "0")}m`
\* and the pair Math.floor(x / 60), Math.round(x % 60) of a double x of
\* minutes: x % 60 is exact, and the quotient x / 60 of a double below a
\* multiple of 60 stays below the multiple's sixtieth
FloorOfSixtieth(x) == x[1] \div 60

RoundOfMod60(x) == MathRound([x EXCEPT ![1] = x[1] % 60])

MinutesText(x) == HM(FloorOfSixtieth(x), RoundOfMod60(x))

standardDailyHours == 8

\* What the calculators read of the hours worked: Math.floor of them,
\* Math.round((hours % 1) * 60), hours > standardDailyHours and hours > 0
HoursRead(hours) ==
    [floor |-> hours[1],
     minutes |-> MathRound(FractionTimes60(hours)),
     over |-> hours[1] > standardDailyHours
              \/ (hours[1] = standardDailyHours
                  /\ <<hours[2], hours[3], hours[4], hours[5], hours[6]>>
                       # <<0, 0, 0, 0, 0>>),
     positive |-> hours # FixZero]

\* totalWorkDurationHours + overtimeCalculatedDuration, the durations given
\* in seconds
WorkedHours(morningDuration, afternoonDuration, overtimeCalculatedDuration) ==
    HoursRead(DoubleSum(DoubleSum(DurationHours(morningDuration),
                                  DurationHours(afternoonDuration)),
                        DurationHours(overtimeCalculatedDuration)))

\* workedMinutes of the undertime branch: 0, += the morning's minutes, +=
\* the afternoon's minutes
WorkedMinutes(morningDuration, afternoonDuration) ==
    DoubleSum(DurationMinutes(morningDuration), DurationMinutes(afternoonDuration))


\* ------------------------------------------------------------------------
\* Daily metrics calculators
\* ------------------------------------------------------------------------
\* (remarks ? remarks + ", " : "") + label
AppendRemark(remarks, label) ==
    (IF remarks # "" THEN remarks \o ", " ELSE "") \o label

\* A raw daily record: six time texts and four texts read from the sheet
RawRecord(ai, ao, pi, po, oi, oo, lateX, utX, otX, totX) ==
    [am_arrival |-> ai, am_departure |-> ao,
     pm_arrival |-> pi, pm_departure |-> po,
     ot_arrival |-> oi, ot_departure |-> oo,
     late_excel |-> lateX, undertime_excel |-> utX,
     overtime_hours_excel |-> otX, total_hours_excel |-> totX]

\* dailyExcelRecords.get(day) || {} : every property is undefined
NoRecord ==
    RawRecord(UNDEF, UNDEF, UNDEF, UNDEF, UNDEF, UNDEF,
              UNDEF, UNDEF, UNDEF, UNDEF)

\* new Date(`${dateString} 08:00`) and new Date(`${dateString} 17:00`), as
\* seconds of the day
standardStartTime == 28800
standardEndTime == 61200
standardWorkMinutes == 480

\* const hasActualWorkEntries = amArrival || amDeparture || ... || otDeparture
HasActualWorkEntries(record) ==
    \/ Truthy(record.am_arrival) \/ Truthy(record.am_departure)
    \/ Truthy(record.pm_arrival) \/ Truthy(record.pm_departure)
    \/ Truthy(record.ot_arrival) \/ Truthy(record.ot_departure)

\* The undertime read from the sheet, as the pair of texts String() makes of
\* it; <<"", "">> when absent or not of the form H:MM
SuppliedTexts(matched) ==
    IF matched # <<>> THEN <<NumStr(matched[1]), NumStr(matched[2])>>
    ELSE <<"", "">>

SuppliedUndertime(record) ==
    IF Truthy(record.undertime_excel)
    THEN SuppliedTexts(UtMatch(record.undertime_excel))
    ELSE <<"", "">>

\* Math.max(standardWorkMinutes - workedMinutes, 0) as hours and minutes
\* texts, empty when there is no shortfall
ShortfallPair(calculatedUndertimeMinutes) ==
    <<NumStr(FloorOfSixtieth(calculatedUndertimeMinutes)),
      NumStr(RoundOfMod60(calculatedUndertimeMinutes))>>

ShortfallTexts(workedMinutes) ==
    IF workedMinutes[1] < standardWorkMinutes
    THEN ShortfallPair(DoubleDifference(standardWorkMinutes, workedMinutes))
    ELSE <<"", "">>

\* The undertime pair read from the sheet, or the one the simple-format
\* calculator computes
UndertimeOfSimpleParser(supplied, record, dayOfWeek, workedMinutes) ==
    IF (supplied[1] = "" \/ supplied[2] = "")
       /\ dayOfWeek # 0 /\ dayOfWeek # 6
    THEN IF HasActualWorkEntries(record)
         THEN ShortfallTexts(workedMinutes)
         ELSE <<"", "">>
    ELSE IF dayOfWeek = 0 \/ dayOfWeek = 6 THEN <<"", "">>
    ELSE supplied

\* The undertime branch of calculateDailyMetricsFromTimesForSimpleParser
UndertimeForSimpleParser(record, dayOfWeek, workedMinutes) ==
    UndertimeOfSimpleParser(SuppliedUndertime(record), record, dayOfWeek,
                            workedMinutes)

\* Simple-format calculator: the late text, from late_excel or from the morning arrival
LateForSimpleParser(late0, amInTime) ==
    IF late0 = "" /\ amInTime # NULL /\ amInTime # NaN
       /\ amInTime > standardStartTime
    THEN MinutesText(DurationMinutes(amInTime - standardStartTime))
    ELSE late0

\* Simple-format calculator: the "Late" remark is added with the calculated late text
IsLateForSimpleParser(late0, amInTime) ==
    late0 = "" /\ amInTime # NULL /\ amInTime # NaN /\ amInTime > standardStartTime

\* Simple-format calculator: pmOutTime && !isNaN(pmOutTime) && pmOutTime < standardEndTime
IsEarlyForSimpleParser(pmOutTime) ==
    pmOutTime # NULL /\ pmOutTime # NaN /\ pmOutTime < standardEndTime

\* Simple-format calculator: the early-out text
EarlyOutForSimpleParser(pmOutTime) ==
    IF IsEarlyForSimpleParser(pmOutTime)
    THEN MinutesText(DurationMinutes(standardEndTime - pmOutTime))
    ELSE ""

\* Simple-format calculator: overtime is calculated when none was read from the sheet and
\* the hours worked exceed standardDailyHours
IsOverForSimpleParser(overtime0, worked) == overtime0 = "" /\ worked.over

\* Simple-format calculator: the overtime text, from otCalculated = hours worked -
\* standardDailyHours (a difference without rounding, with the same fraction)
OvertimeForSimpleParser(overtime0, worked) ==
    IF IsOverForSimpleParser(overtime0, worked)
    THEN HM(worked.floor - standardDailyHours, worked.minutes)
    ELSE overtime0

\* Simple-format calculator: the total hours text
TotalHoursForSimpleParser(total0, hasActualWorkEntries, worked) ==
    IF total0 = "" /\ hasActualWorkEntries /\ worked.positive
    THEN HM(worked.floor, worked.minutes)
    ELSE total0

\* Simple-format calculator: the remarks, appended in the order late, early out, overtime
RemarksForSimpleParser(isLate, isEarly, isOver) ==
    LET remarks1 == IF isLate THEN AppendRemark("", "Late") ELSE ""
        remarks2 == IF isEarly THEN AppendRemark(remarks1, "Early Out")
                    ELSE remarks1
    IN IF isOver THEN AppendRemark(remarks2, "Overtime") ELSE remarks2

\* Simple-format calculator: the returned object, given the parsed times, the durations and
\* the undertime pair
MetricsForSimpleParser(record, amInTime, pmOutTime, worked, undertime) ==
    [am_arrival |-> record.am_arrival,
     am_departure |-> record.am_departure,
     pm_arrival |-> record.pm_arrival,
     pm_departure |-> record.pm_departure,
     ot_arrival |-> record.ot_arrival,
     ot_departure |-> record.ot_departure,
     total_hours |-> TotalHoursForSimpleParser(OrEmpty(record.total_hours_excel),
                        HasActualWorkEntries(record), worked),
     late |-> LateForSimpleParser(OrEmpty(record.late_excel), amInTime),
     early_out |-> EarlyOutForSimpleParser(pmOutTime),
     overtime |-> OvertimeForSimpleParser(OrEmpty(record.overtime_hours_excel), worked),
     remarks |-> RemarksForSimpleParser(
                    IsLateForSimpleParser(OrEmpty(record.late_excel), amInTime),
                    IsEarlyForSimpleParser(pmOutTime),
                    IsOverForSimpleParser(OrEmpty(record.overtime_hours_excel), worked)),
     undertime_hours |-> undertime[1],
     undertime_minutes |-> undertime[2]]

\* Simple-format calculator: the durations of the three sessions, in seconds
DurationsForSimpleParser(record, dayOfWeek, amInTime, pmOutTime, morningDuration, afternoonDuration, overtimeCalculatedDuration) ==
    MetricsForSimpleParser(record, amInTime, pmOutTime,
        WorkedHours(morningDuration, afternoonDuration, overtimeCalculatedDuration),
        UndertimeForSimpleParser(record, dayOfWeek,
                           WorkedMinutes(morningDuration, afternoonDuration)))

\* Simple-format calculator: the six parsed times
TimesForSimpleParser(record, dayOfWeek, amInTime, amOutTime, pmInTime, pmOutTime, otInTime, otOutTime) ==
    DurationsForSimpleParser(record, dayOfWeek, amInTime, pmOutTime,
        PairSeconds(amInTime, amOutTime), PairSeconds(pmInTime, pmOutTime),
        PairSeconds(otInTime, otOutTime))

calculateDailyMetricsFromTimesForSimpleParser(record, year, monthNum, day) ==
    TimesForSimpleParser(record, JsGetDay(year, monthNum, day),
        TimeOrNull(record.am_arrival), TimeOrNull(record.am_departure),
        TimeOrNull(record.pm_arrival), TimeOrNull(record.pm_departure),
        TimeOrNull(record.ot_arrival), TimeOrNull(record.ot_departure))

\* The undertime pair read from the sheet, or the one the block-format
\* calculator computes: a shortfall, or the weekend marker of a day without
\* time entries
UndertimeOfTimes(supplied, record, dayOfWeek, workedMinutes) ==
    IF supplied[1] = "" \/ supplied[2] = ""
    THEN IF HasActualWorkEntries(record)
         THEN ShortfallTexts(workedMinutes)
         ELSE IF dayOfWeek = 6 THEN <<"Saturday", "Saturday">>
              ELSE IF dayOfWeek = 0 THEN <<"Sunday", "Sunday">>
              ELSE <<"", "">>
    ELSE supplied

\* The undertime branch of calculateDailyMetricsFromTimes
UndertimeFromTimes(record, dayOfWeek, workedMinutes) ==
    UndertimeOfTimes(SuppliedUndertime(record), record, dayOfWeek, workedMinutes)

\* Block-format calculator: the late text, from late_excel or from the morning arrival
LateFromTimes(late0, amInTime) ==
    IF late0 = "" /\ amInTime # NULL /\ amInTime # NaN
       /\ amInTime > standardStartTime
    THEN MinutesText(DurationMinutes(amInTime - standardStartTime))
    ELSE late0

\* Block-format calculator: the "Late" remark is added with the calculated late text
IsLateFromTimes(late0, amInTime) ==
    late0 = "" /\ amInTime # NULL /\ amInTime # NaN /\ amInTime > standardStartTime

\* Block-format calculator: pmOutTime && !isNaN(pmOutTime) && pmOutTime < standardEndTime
IsEarlyFromTimes(pmOutTime) ==
    pmOutTime # NULL /\ pmOutTime # NaN /\ pmOutTime < standardEndTime

\* Block-format calculator: the early-out text
EarlyOutFromTimes(pmOutTime) ==
    IF IsEarlyFromTimes(pmOutTime)
    THEN MinutesText(DurationMinutes(standardEndTime - pmOutTime))
    ELSE ""

\* Block-format calculator: overtime is calculated when none was read from the sheet and
\* the hours worked exceed standardDailyHours
IsOverFromTimes(overtime0, worked) == overtime0 = "" /\ worked.over

\* The overtime text of the hours worked, standardDailyHours not subtracted
OvertimeFromTimesOfAllHours(overtime0, worked) ==
    IF IsOverFromTimes(overtime0, worked)
    THEN HM(worked.floor, worked.minutes)
    ELSE overtime0

\* Block-format calculator: the overtime text, from otCalculated = hours worked -
\* standardDailyHours (a difference without rounding, with the same fraction)
OvertimeFromTimes(overtime0, worked) ==
    IF IsOverFromTimes(overtime0, worked)
    THEN HM(worked.floor - standardDailyHours, worked.minutes)
    ELSE overtime0

\* Block-format calculator: the total hours text
TotalHoursFromTimes(total0, hasActualWorkEntries, worked) ==
    IF total0 = "" /\ hasActualWorkEntries /\ worked.positive
    THEN HM(worked.floor, worked.minutes)
    ELSE total0

\* Block-format calculator: the remarks, appended in the order late, early out, overtime
RemarksFromTimes(isLate, isEarly, isOver) ==
    LET remarks1 == IF isLate THEN AppendRemark("", "Late") ELSE ""
        remarks2 == IF isEarly THEN AppendRemark(remarks1, "Early Out")
                    ELSE remarks1
    IN IF isOver THEN AppendRemark(remarks2, "Overtime") ELSE remarks2

\* Block-format calculator: the returned object, given the parsed times, the durations and
\* the undertime pair
MetricsFromTimes(record, amInTime, pmOutTime, worked, undertime) ==
    [am_arrival |-> record.am_arrival,
     am_departure |-> record.am_departure,
     pm_arrival |-> record.pm_arrival,
     pm_departure |-> record.pm_departure,
     ot_arrival |-> record.ot_arrival,
     ot_departure |-> record.ot_departure,
     total_hours |-> TotalHoursFromTimes(OrEmpty(record.total_hours_excel),
                        HasActualWorkEntries(record), worked),
     late |-> LateFromTimes(OrEmpty(record.late_excel), amInTime),
     early_out |-> EarlyOutFromTimes(pmOutTime),
     overtime |-> OvertimeFromTimes(OrEmpty(record.overtime_hours_excel), worked),
     remarks |-> RemarksFromTimes(
                    IsLateFromTimes(OrEmpty(record.late_excel), amInTime),
                    IsEarlyFromTimes(pmOutTime),
                    IsOverFromTimes(OrEmpty(record.overtime_hours_excel), worked)),
     undertime_hours |-> undertime[1],
     undertime_minutes |-> undertime[2]]

\* Block-format calculator: the durations of the three sessions, in seconds
DurationsFromTimes(record, dayOfWeek, amInTime, pmOutTime, morningDuration, afternoonDuration, overtimeCalculatedDuration) ==
    MetricsFromTimes(record, amInTime, pmOutTime,
        WorkedHours(morningDuration, afternoonDuration, overtimeCalculatedDuration),
        UndertimeFromTimes(record, dayOfWeek,
                           WorkedMinutes(morningDuration, afternoonDuration)))

\* Block-format calculator: the six parsed times
TimesFromTimes(record, dayOfWeek, amInTime, amOutTime, pmInTime, pmOutTime, otInTime, otOutTime) ==
    DurationsFromTimes(record, dayOfWeek, amInTime, pmOutTime,
        PairSeconds(amInTime, amOutTime), PairSeconds(pmInTime, pmOutTime),
        PairSeconds(otInTime, otOutTime))

calculateDailyMetricsFromTimes(record, year, monthNum, day) ==
    TimesFromTimes(record, JsGetDay(year, monthNum, day),
        TimeOrNull(record.am_arrival), TimeOrNull(record.am_departure),
        TimeOrNull(record.pm_arrival), TimeOrNull(record.pm_departure),
        TimeOrNull(record.ot_arrival), TimeOrNull(record.ot_departure))


\* ------------------------------------------------------------------------
\* Worksheets: a sparse grid of cells (0-based row and column)
\* ------------------------------------------------------------------------
\* A cell value v is a text (typeof v === "string") or a number
Txt(s) == [t |-> "s", s |-> s, n |-> 0]
Num(n) == [t |-> "n", s |-> "", n |-> n]
NoCell == [t |-> "none", s |-> "", n |-> 0]

\* sheet[xlsx.utils.encode_cell({r, c})]
CellAt(sheet, r, c) ==
    IF <<r, c>> \in DOMAIN sheet.cells THEN sheet.cells[<<r, c>>] ELSE NoCell

\* String.prototype.trim on the texts of the model
Trim(s) ==
    CASE s = " Name " -> "Name"
      [] s = "User ID " -> "User ID"
      [] s = " Ana Cruz" -> "Ana Cruz"
      [] s = "08:00 " -> "08:00"
      [] s = "Clock Out " -> "Clock Out"
      [] s = "   " -> ""
      [] OTHER -> s

\* String.prototype.toLowerCase on the header texts of the model
ToLower(s) ==
    CASE s = "Name" -> "name"
      [] s = "NAME" -> "name"
      [] s = "User ID" -> "user id"
      [] s = "Dept." -> "dept."
      [] s = "Date" -> "date"
      [] s = "DATE" -> "date"
      [] s = "Date/Weekday" -> "date/weekday"
      [] s = "Date / Weekday" -> "date / weekday"
      [] s = "Date:" -> "date:"
      [] s = "In" -> "in"
      [] s = "Out" -> "out"
      [] s = "Tabling date:" -> "tabling date:"
      [] s = "Tabling date: printed" -> "tabling date: printed"
      [] s = "Timetable" -> "timetable"
      [] s = "TIMETABLE" -> "timetable"
      [] s = "Clock In" -> "clock in"
      [] s = "Clock Out" -> "clock out"
      [] OTHER -> s

\* cell.v is falsy: no cell, the empty text, or the number 0
FalsyCell(cell) ==
    \/ cell.t = "none"
    \/ cell.t = "s" /\ cell.s = ""
    \/ cell.t = "n" /\ cell.n = 0

\* String(cell?.v || "").trim()
CellText(cell) ==
    IF FalsyCell(cell) THEN ""
    ELSE IF cell.t = "n" THEN NumStr(cell.n) ELSE Trim(cell.s)

GLOBAL_DATE_RANGE_TEXT == "Date"
TABLING_DATE_TEXT == "Tabling date:"
HEADER_DEPARTMENT == "Dept."
HEADER_NAME == "Name"
HEADER_USER_ID == "User ID"
HEADER_DAY == "Date/Weekday"
HEADER_AM_IN_OUT == "In"
HEADER_PM_IN_OUT == "Out"

OFFSET_AM_IN == 1
OFFSET_AM_OUT == 3
OFFSET_PM_IN == 6
OFFSET_PM_OUT == 8
OFFSET_OT_IN == 10
OFFSET_OT_OUT == 12
OFFSET_LATE == 13
OFFSET_UNDERTIME == 14
OFFSET_OVERTIME_HOURS == 19
OFFSET_TOTAL_HOURS == 20

HEADER_SEARCH_START_ROW == 0
HEADER_SEARCH_END_ROW == 100

\* /^date([\s\r\n]*\/[\s\r\n]*weekday)?$/i on a trimmed, lower-cased text
DayRegexTest(text) == text \in {"date", "date/weekday", "date / weekday"}

\* new RegExp("^" + escaped(prefix), "i").test(text) on the texts of the model
PrefixRegexTest(prefix, text) ==
    CASE prefix = "date" ->
           text \in {"date", "date:", "date/weekday", "date / weekday"}
      [] prefix = "tabling date:" ->
           text \in {"tabling date:", "tabling date: printed"}
      [] OTHER -> text = prefix

\* new RegExp("^" + escaped(label) + "$", "i").test(text): the label holds no
\* slash, every other special character is escaped
ExactRegexTest(label, text) == text = label

SearchRange(sr, sc, er, ec) == [sr |-> sr, sc |-> sc, er |-> er, ec |-> ec]

InRange(rc, range) ==
    /\ rc[1] >= range.sr /\ rc[1] <= range.er
    /\ rc[2] >= range.sc /\ rc[2] <= range.ec

\* (r1, c1) comes before (r2, c2) in the row-by-row, column-by-column scan
ScanBefore(a, b) == a[1] < b[1] \/ (a[1] = b[1] /\ a[2] < b[2])

RECURSIVE ScanOrder(_)
\* The coordinates of a set in the order the nested for loops visit them
ScanOrder(coords) ==
    IF coords = {} THEN <<>>
    ELSE LET first == CHOOSE a \in coords :
                          \A b \in coords : a = b \/ ScanBefore(a, b)
         IN <<first>> \o ScanOrder(coords \ {first})

\* The regular expression findAllCellsByValue builds for a value
FindAllRegexTest(value, text) ==
    IF value = HEADER_DAY THEN DayRegexTest(text)
    ELSE IF value = GLOBAL_DATE_RANGE_TEXT \/ value = TABLING_DATE_TEXT
    THEN PrefixRegexTest(ToLower(Trim(value)), text)
    ELSE ExactRegexTest(ToLower(Trim(value)), text)

findAllCellsByValue(sheet, value, searchRange) ==
    ScanOrder({rc \in DOMAIN sheet.cells :
                 /\ InRange(rc, searchRange)
                 /\ sheet.cells[rc].t = "s"
                 /\ Trim(sheet.cells[rc].s) # ""
                 /\ FindAllRegexTest(value, ToLower(Trim(sheet.cells[rc].s)))})

\* cell && typeof cell.v === "string" && regexValue.test(...)
FindCellMatches(sheet, rc, value) ==
    /\ rc \in DOMAIN sheet.cells
    /\ sheet.cells[rc].t = "s"
    /\ ExactRegexTest(ToLower(Trim(value)), ToLower(Trim(sheet.cells[rc].s)))

\* The first match: a merged range whose top-left corner lies in the range
\* (in the order of sheet["!merges"]), else the first cell of the scan;
\* <<>> is null
findCellByValue(sheet, value, searchRange) ==
    LET mergeHits == {i \in 1..Len(sheet.merges) :
                        /\ InRange(sheet.merges[i], searchRange)
                        /\ FindCellMatches(sheet, sheet.merges[i], value)}
        cellHits == {rc \in DOMAIN sheet.cells :
                        InRange(rc, searchRange)
                        /\ FindCellMatches(sheet, rc, value)}
    IN IF mergeHits # {}
       THEN sheet.merges[CHOOSE i \in mergeHits : \A j \in mergeHits : i <= j]
       ELSE IF cellHits # {} THEN ScanOrder(cellHits)[1]
       ELSE <<>>


\* ------------------------------------------------------------------------
\* Block-format parser
\* ------------------------------------------------------------------------
\* parseExcelDate(n).toISOString().split("T")[0] for a whole serial number,
\* in a process whose time zone is UTC
RECURSIVE CivilFromDays(_, _, _)
CivilFromDays(days, y, m) ==
    IF days < MonthLen(y, m)
    THEN MonthText(y, m) \o "-" \o Pad2(days + 1)
    ELSE CivilFromDays(days - MonthLen(y, m),
                       IF m = 12 THEN y + 1 ELSE y,
                       IF m = 12 THEN 1 ELSE m + 1)

ExcelEpochSerial == 25569

parseExcelDate(serial) == CivilFromDays(serial - ExcelEpochSerial, 1970, 1)

DateRangeText(y, m, d1, d2) ==
    MonthText(y, m) \o "-" \o Pad2(d1) \o "~" \o MonthText(y, m) \o "-" \o Pad2(d2)

\* attendanceDateRange.match(/^(\d{4}-\d{2})-\d{2}~\d{4}-\d{2}-\d{2}$/):
\* the captured month text, "" when the text does not match
DateRangeMatch(text) ==
    LET hits == {ym \in ModelMonths :
                   \E d2 \in 1..31 : text = DateRangeText(ym.y, ym.m, 1, d2)}
    IN IF hits = {} THEN ""
       ELSE LET ym == CHOOSE h \in hits : TRUE IN MonthText(ym.y, ym.m)

\* The reporting month taken from the clock for every sheet
ReportMonthOfClock(attendanceDateRange, thisMonth) ==
    MonthText(thisMonth.y, thisMonth.m)

\* The reporting month of a sheet when the process clock shows `thisMonth`
ReportMonth(attendanceDateRange, thisMonth) ==
    IF DateRangeMatch(attendanceDateRange) # ""
    THEN DateRangeMatch(attendanceDateRange)
    ELSE MonthText(thisMonth.y, thisMonth.m)

\* The text next to the first cell found for a caption, "" when none is found
CaptionValue(sheet, found) ==
    IF Len(found) > 0
    THEN CellText(CellAt(sheet, found[1][1], found[1][2] + 1))
    ELSE ""

TablingDateValue(sheet, found) ==
    IF Len(found) > 0
    THEN LET raw == CellAt(sheet, found[1][1], found[1][2] + 1)
         IN IF raw.t = "n" THEN parseExcelDate(raw.n) ELSE CellText(raw)
    ELSE ""

\* String(dateWeekdayRaw).match(/^(\d+)/) then parseInt, else the raw number;
\* NULL when the cell gives no day
DayOfCell(cell) ==
    IF FalsyCell(cell) THEN NULL
    ELSE IF cell.t = "n" THEN cell.n
    ELSE LET hits == {d \in 0..40 :
                        \/ cell.s = NumStr(d)
                        \/ \E w \in 1..7 :
                             cell.s = Pad2(d) \o " " \o ShortNames[w]}
         IN IF hits = {} THEN NULL ELSE CHOOSE d \in hits : TRUE

\* String(sheet[...]?.v || "").trim() at an offset from the day column
FieldAt(sheet, R, dayColIndex, offset) ==
    CellText(CellAt(sheet, R, dayColIndex + offset))

RowRecord(sheet, R, dayColIndex) ==
    RawRecord(FieldAt(sheet, R, dayColIndex, OFFSET_AM_IN),
              FieldAt(sheet, R, dayColIndex, OFFSET_AM_OUT),
              FieldAt(sheet, R, dayColIndex, OFFSET_PM_IN),
              FieldAt(sheet, R, dayColIndex, OFFSET_PM_OUT),
              FieldAt(sheet, R, dayColIndex, OFFSET_OT_IN),
              FieldAt(sheet, R, dayColIndex, OFFSET_OT_OUT),
              FieldAt(sheet, R, dayColIndex, OFFSET_LATE),
              FieldAt(sheet, R, dayColIndex, OFFSET_UNDERTIME),
              FieldAt(sheet, R, dayColIndex, OFFSET_OVERTIME_HOURS),
              FieldAt(sheet, R, dayColIndex, OFFSET_TOTAL_HOURS))

\* dailyExcelRecords.set(day, record)
MapSet(map, key, value) ==
    [k \in DOMAIN map \cup {key} |-> IF k = key THEN value ELSE map[k]]

RECURSIVE ScanRows(_, _, _, _, _, _)
\* for (let R = timecardDataStartRow; R <= sheetFullRange.e.r; ++R)
ScanRows(sheet, dayColIndex, R, timecardDataStartRow, daysInReportMonth, records) ==
    IF R > sheet.er THEN records
    ELSE LET dayCell == CellAt(sheet, R, dayColIndex)
             day == DayOfCell(dayCell)
         IN IF FalsyCell(dayCell) /\ R > timecardDataStartRow THEN records
            ELSE ScanRows(sheet, dayColIndex, R + 1, timecardDataStartRow,
                          daysInReportMonth,
                          IF day # NULL /\ day >= 1 /\ day <= daysInReportMonth
                          THEN MapSet(records, day,
                                      RowRecord(sheet, R, dayColIndex))
                          ELSE records)

\* One entry of a timeCard
TimeCardEntry(day, dateWeekday, metrics) ==
    [day |-> day, dateWeekday |-> dateWeekday,
     am_arrival |-> metrics.am_arrival,
     am_departure |-> metrics.am_departure,
     pm_arrival |-> metrics.pm_arrival,
     pm_departure |-> metrics.pm_departure,
     ot_arrival |-> metrics.ot_arrival,
     ot_departure |-> metrics.ot_departure,
     total_hours |-> metrics.total_hours,
     late |-> metrics.late,
     early_out |-> metrics.early_out,
     overtime |-> metrics.overtime,
     remarks |-> metrics.remarks,
     undertime_hours |-> metrics.undertime_hours,
     undertime_minutes |-> metrics.undertime_minutes]

\* for (let day = 1; day <= daysInMonth; day++) employeeData.timeCard.push(...)
BlockTimeCard(records, year, monthNum) ==
    [i \in 1..JsDaysInMonth(year, monthNum) |->
        TimeCardEntry(i, FormatDateWeekday(year, monthNum, i),
            calculateDailyMetricsFromTimes(
                IF i \in DOMAIN records THEN records[i] ELSE NoRecord,
                year, monthNum, i))]

\* The value next to a header cell of a block, "" when the header is absent
HeaderValue(sheet, headerCell) ==
    IF headerCell # <<>>
    THEN CellText(CellAt(sheet, headerCell[1], headerCell[2] + 1))
    ELSE ""

\* The row below the lowest In/Out sub-header, or maxDayHeaderRow + 2
TimecardDataStartRow(sheet, dayColIndex, nextBlockDayColIndex, maxDayHeaderRow) ==
    LET subHeaderSearchRange ==
            SearchRange(maxDayHeaderRow, dayColIndex,
                        maxDayHeaderRow + 5, nextBlockDayColIndex - 1)
        allSubHeaders ==
            findAllCellsByValue(sheet, HEADER_AM_IN_OUT, subHeaderSearchRange)
            \o findAllCellsByValue(sheet, HEADER_PM_IN_OUT, subHeaderSearchRange)
    IN IF Len(allSubHeaders) > 0
       THEN (CHOOSE r \in {allSubHeaders[i][1] : i \in 1..Len(allSubHeaders)} :
                \A i \in 1..Len(allSubHeaders) : allSubHeaders[i][1] <= r) + 1
       ELSE maxDayHeaderRow + 2

\* The check with && in the place of ||
BlockIsSkippedWhenBothMissing(name, userId) == name = "" /\ userId = ""

\* The essential-info check of a block: !employeeData.name || !employeeData.userId
BlockIsSkipped(name, userId) == name = "" \/ userId = ""

\* allEmployees.push({...}) of a block, or the `return` that skips it
BlockEmployee(name, userId, department, reportMonth, attendanceDateRange, tablingDate, timeCard) ==
    IF BlockIsSkipped(name, userId) THEN <<>>
    ELSE << [userId |-> userId, name |-> name, department |-> department,
             month |-> reportMonth,
             attendanceDateRange |-> attendanceDateRange,
             tablingDate |-> tablingDate,
             timeCard |-> timeCard] >>

\* The values next to the three header captions of a block
BlockHeaders(sheet, blockHeaderSearchRange, attendanceDateRange, tablingDate, reportMonth, timeCard) ==
    BlockEmployee(
        HeaderValue(sheet,
            findCellByValue(sheet, HEADER_NAME, blockHeaderSearchRange)),
        HeaderValue(sheet,
            findCellByValue(sheet, HEADER_USER_ID, blockHeaderSearchRange)),
        HeaderValue(sheet,
            findCellByValue(sheet, HEADER_DEPARTMENT, blockHeaderSearchRange)),
        reportMonth, attendanceDateRange, tablingDate, timeCard)

\* The row scan of a block from its first data row, then its timeCard
BlockRecords(sheet, dayColIndex, timecardDataStartRow, ym) ==
    BlockTimeCard(ScanRows(sheet, dayColIndex, timecardDataStartRow,
                           timecardDataStartRow, JsDaysInMonth(ym.y, ym.m), <<>>),
                  ym.y, ym.m)

\* One iteration of sortedDayColumnIndices.forEach: the employees it pushes
\* (none when the block is skipped)
ParseBlock(sheet, dayColIndex, nextBlockDayColIndex, maxDayHeaderRow, attendanceDateRange, tablingDate, reportMonth) ==
    BlockHeaders(sheet,
        SearchRange(HEADER_SEARCH_START_ROW, dayColIndex,
                    HEADER_SEARCH_END_ROW, nextBlockDayColIndex - 1),
        attendanceDateRange, tablingDate, reportMonth,
        BlockRecords(sheet, dayColIndex,
            TimecardDataStartRow(sheet, dayColIndex, nextBlockDayColIndex,
                                 maxDayHeaderRow),
            SplitMonth(reportMonth)))

RECURSIVE SortedSeq(_)
\* Array.from(set).sort((a, b) => a - b)
SortedSeq(set) ==
    IF set = {} THEN <<>>
    ELSE LET least == CHOOSE a \in set : \A b \in set : a <= b
         IN <<least>> \o SortedSeq(set \ {least})

\* Every block reaching to the last column of the sheet
NextBlockDayColIndexAtSheetEnd(sheet, sortedDayColumnIndices, index) ==
    sheet.ec + 1

\* nextBlockDayColIndex of block `index` (1-based): the next day column, or
\* the column after the last one of the sheet
NextBlockDayColIndex(sheet, sortedDayColumnIndices, index) ==
    IF index + 1 <= Len(sortedDayColumnIndices)
    THEN sortedDayColumnIndices[index + 1]
    ELSE sheet.ec + 1

RECURSIVE ParseBlocks(_, _, _, _, _, _, _)
ParseBlocks(sheet, sortedDayColumnIndices, index, maxDayHeaderRow, attendanceDateRange, tablingDate, reportMonth) ==
    IF index > Len(sortedDayColumnIndices) THEN <<>>
    ELSE ParseBlock(sheet, sortedDayColumnIndices[index],
                    NextBlockDayColIndex(sheet, sortedDayColumnIndices, index),
                    maxDayHeaderRow, attendanceDateRange, tablingDate,
                    reportMonth)
         \o ParseBlocks(sheet, sortedDayColumnIndices, index + 1,
                        maxDayHeaderRow, attendanceDateRange, tablingDate,
                        reportMonth)

\* xlsx.utils.decode_range(sheet["!ref"]) throws a TypeError when the sheet
\* has no "!ref" (a worksheet without any cell)
SheetThrows(sheet) == ~sheet.hasRef

\* attendanceDateRange, tablingDate and reportMonth of a worksheet
SheetCaptions(sheet, thisMonth) ==
    LET globalHeaderSearchRange ==
            SearchRange(0, 0, HEADER_SEARCH_END_ROW, sheet.ec)
        attendanceDateRange ==
            CaptionValue(sheet, findAllCellsByValue(sheet, GLOBAL_DATE_RANGE_TEXT,
                                                    globalHeaderSearchRange))
    IN [attendanceDateRange |-> attendanceDateRange,
        tablingDate |->
            TablingDateValue(sheet, findAllCellsByValue(sheet, TABLING_DATE_TEXT,
                                                        globalHeaderSearchRange)),
        reportMonth |-> ReportMonth(attendanceDateRange, thisMonth)]

\* dayHeaderLocations: every day-anchor header of the worksheet
DayHeaderLocations(sheet) ==
    findAllCellsByValue(sheet, HEADER_DAY,
        SearchRange(HEADER_SEARCH_START_ROW, 0, sheet.er, sheet.ec))

\* maxDayHeaderRow of a worksheet with at least one day-anchor header
MaxDayHeaderRow(dayHeaderLocations) ==
    LET rows == {dayHeaderLocations[i][1] : i \in 1..Len(dayHeaderLocations)}
    IN CHOOSE r \in rows : \A q \in rows : q <= r

\* sortedDayColumnIndices
SortedDayColumnIndices(dayHeaderLocations) ==
    SortedSeq({dayHeaderLocations[i][2] : i \in 1..Len(dayHeaderLocations)})

\* The employees of one worksheet (the sheet has a "!ref")
parseSingleEmployeeAttendanceSheet(sheet, thisMonth) ==
    LET captions == SheetCaptions(sheet, thisMonth)
        dayHeaderLocations == DayHeaderLocations(sheet)
    IN IF Len(dayHeaderLocations) = 0 THEN <<>>
       ELSE ParseBlocks(sheet, SortedDayColumnIndices(dayHeaderLocations), 1,
                        MaxDayHeaderRow(dayHeaderLocations),
                        captions.attendanceDateRange, captions.tablingDate,
                        captions.reportMonth)


\* ------------------------------------------------------------------------
\* Simple-format parser
\* ------------------------------------------------------------------------
SlashDate(a, b, y) == Pad2(a) \o "/" \o Pad2(b) \o "/" \o NumStr(y)

\* dateString.split('/') and parseInt of the three parts; <<>> when the text
\* is not three numbers separated by slashes
SlashParts(text) ==
    LET hits == {p \in (1..31) \X (1..31) \X ModelYears :
                   text = SlashDate(p[1], p[2], p[3])}
    IN IF hits = {} THEN <<>> ELSE CHOOSE p \in hits : TRUE

JsDate(y, m, d) == [y |-> y, m |-> m, d |-> d]

\* new Date(year, month - 1, day) with the day overflowing into the next month
NormalizedDate(y, m, d) ==
    IF d <= MonthLen(y, m) THEN JsDate(y, m, d)
    ELSE IF m = 12 THEN JsDate(y + 1, 1, d - MonthLen(y, m))
    ELSE JsDate(y, m + 1, d - MonthLen(y, m))

\* <<>> is null
ValidDdMmYyyy(parts) ==
    IF parts = <<>> THEN <<>>
    ELSE LET day == parts[1]
             month == parts[2]
             year == parts[3]
         IN IF month >= 1 /\ month <= 12 /\ day >= 1 /\ day <= 31
               /\ year >= 1900 /\ year <= 2100
               /\ NormalizedDate(year, month, day) = JsDate(year, month, day)
            THEN JsDate(year, month, day)
            ELSE <<>>

parseDdMmYyyyDateString(dateString) == ValidDdMmYyyy(SlashParts(dateString))

\* new Date(text), the generic parser: month/day/year, or year-month-day;
\* <<>> is an Invalid Date
IsoDates(text) ==
    {p \in ModelMonths \X (1..31) :
        text = MonthText(p[1].y, p[1].m) \o "-" \o Pad2(p[2])
        /\ p[2] <= MonthLen(p[1].y, p[1].m)}

GenericOf(parts, iso) ==
    IF parts # <<>>
    THEN IF parts[1] <= 12 THEN NormalizedDate(parts[3], parts[1], parts[2])
         ELSE <<>>
    ELSE IF iso # {}
    THEN LET p == CHOOSE q \in iso : TRUE IN JsDate(p[1].y, p[1].m, p[2])
    ELSE <<>>

GenericDate(text) == GenericOf(SlashParts(text), IsoDates(text))

\* The date of a row: the DD/MM/YYYY parser first, the generic one next
FirstDate(parsed, dateStr) ==
    IF parsed # <<>> THEN parsed ELSE GenericDate(dateStr)

RowDate(dateStr) == FirstDate(parseDdMmYyyyDateString(dateStr), dateStr)

\* String.prototype.toUpperCase on the timetable texts of the model
ToUpper(s) ==
    CASE s = "am" -> "AM"
      [] s = "pm" -> "PM"
      [] s = "Am" -> "AM"
      [] OTHER -> s

\* row[key] of sheet_to_json(sheet, {defval: "", raw: false}): the text of
\* the cell under the header cell whose text is key; undefined without such
\* a header
JsonField(sheet, r, key) ==
    LET cols == {c \in 0..sheet.ec :
                   CellAt(sheet, 0, c).t = "s" /\ CellAt(sheet, 0, c).s = key}
    IN IF cols = {} THEN UNDEF
       ELSE LET c == CHOOSE x \in cols : \A z \in cols : x <= z
                cell == CellAt(sheet, r, c)
            IN IF cell.t = "none" THEN ""
               ELSE IF cell.t = "n" THEN NumStr(cell.n) ELSE cell.s

\* (row[key] || "").trim()
JsonText(sheet, r, key) == Trim(OrEmpty(JsonField(sheet, r, key)))

SkeletonSlots == 31

\* Array(31).fill(null).map((_, idx) => ({day: idx + 1, ...}))
initialTimeCard(year, monthNum) ==
    [i \in 1..SkeletonSlots |->
        [day |-> i, dateWeekday |-> FormatDateWeekday(year, monthNum, i),
         am_arrival |-> "", am_departure |-> "",
         pm_arrival |-> "", pm_departure |-> "",
         ot_arrival |-> "", ot_departure |-> "",
         total_hours |-> "", late |-> "", early_out |-> "", overtime |-> "",
         remarks |-> "", undertime_hours |-> "", undertime_minutes |-> ""]]

\* The index of the employee of a key in the map, 0 when the map has none
KeyIndex(employeeMap, name, month) ==
    LET hits == {i \in 1..Len(employeeMap) :
                   employeeMap[i].name = name /\ employeeMap[i].month = month}
    IN IF hits = {} THEN 0 ELSE CHOOSE i \in hits : TRUE

\* record.am_arrival = clockIn ... for the timetable of the row
FillSession(record, timetable, clockIn, clockOut) ==
    IF timetable = "AM"
    THEN [record EXCEPT !.am_arrival = clockIn, !.am_departure = clockOut]
    ELSE IF timetable = "PM"
    THEN [record EXCEPT !.pm_arrival = clockIn, !.pm_departure = clockOut]
    ELSE record

\* employee.timeCard[dayOfMonth - 1] of the row's employee gets the session
SimpleRowFill(withKey, k, date, timetable, clockIn, clockOut) ==
    IF date.d >= 1 /\ date.d <= Len(withKey[k].timeCard)
    THEN [withKey EXCEPT ![k].timeCard[date.d] =
             FillSession(@, timetable, clockIn, clockOut)]
    ELSE withKey

\* The map with the employee of the key, created with the skeleton when new
SimpleRowKeyed(withKey, name, month, date, timetable, clockIn, clockOut) ==
    SimpleRowFill(withKey, KeyIndex(withKey, name, month), date, timetable,
                  clockIn, clockOut)

\* if (!employeeMap.has(employeeKey)) employeeMap.set(employeeKey, {...})
SimpleRowMonth(employeeMap, name, month, date, timetable, clockIn, clockOut) ==
    SimpleRowKeyed(
        IF KeyIndex(employeeMap, name, month) = 0
        THEN Append(employeeMap,
                [userId |-> name, name |-> name, department |-> "",
                 month |-> month, attendanceDateRange |-> "",
                 tablingDate |-> "",
                 timeCard |-> initialTimeCard(date.y, date.m)])
        ELSE employeeMap,
        name, month, date, timetable, clockIn, clockOut)

\* The row's fields: rows without name, date or timetable, and rows whose
\* date cannot be parsed, are skipped
SimpleRowFields(employeeMap, name, dateValue, timetable, clockIn, clockOut, date) ==
    IF name = "" \/ Falsy(dateValue) \/ timetable = "" THEN employeeMap
    ELSE IF date = <<>> THEN employeeMap
    ELSE SimpleRowMonth(employeeMap, name, MonthText(date.y, date.m), date,
                        timetable, clockIn, clockOut)

\* The body of `for (const row of rows)` for the sheet row r
SimpleRow(employeeMap, sheet, r) ==
    SimpleRowFields(employeeMap,
        JsonText(sheet, r, "Name"), JsonField(sheet, r, "Date"),
        ToUpper(JsonText(sheet, r, "Timetable")),
        JsonText(sheet, r, "Clock In"), JsonText(sheet, r, "Clock Out"),
        RowDate(Trim(JsonField(sheet, r, "Date"))))

RECURSIVE SimpleRows(_, _, _)
SimpleRows(employeeMap, sheet, r) ==
    IF r > sheet.er THEN employeeMap
    ELSE SimpleRows(SimpleRow(employeeMap, sheet, r), sheet, r + 1)

\* The record of the skeleton handed to the calculator: it has no *_excel
\* property
SkeletonRaw(record) ==
    RawRecord(record.am_arrival, record.am_departure,
              record.pm_arrival, record.pm_departure,
              record.ot_arrival, record.ot_departure,
              UNDEF, UNDEF, UNDEF, UNDEF)

\* employee.timeCard.filter(...).map(record => ({...record, ...metrics}))
SimpleTimeCard(timeCard, year, monthNum) ==
    [i \in 1..Len(timeCard) |->
        TimeCardEntry(timeCard[i].day, timeCard[i].dateWeekday,
            calculateDailyMetricsFromTimesForSimpleParser(
                SkeletonRaw(timeCard[i]), year, monthNum, timeCard[i].day))]

\* The employees of the first worksheet of a simple-format workbook
SimpleEmployee(employee, ym) ==
    [employee EXCEPT !.timeCard = SimpleTimeCard(@, ym.y, ym.m)]

\* Array.from(employeeMap.values()).map(employee => ...)
SimpleEmployees(employeeMap) ==
    [k \in 1..Len(employeeMap) |->
        SimpleEmployee(employeeMap[k], SplitMonth(employeeMap[k].month))]

parseSimpleBiometric(sheet) ==
    SimpleEmployees(IF sheet.hasRef THEN SimpleRows(<<>>, sheet, 1) ELSE <<>>)

requiredSimpleHeaders == {"name", "date", "timetable", "clock in", "clock out"}

\* The header texts of A1..Z1, trimmed and lower-cased
HeaderRowTexts(sheet) ==
    {ToLower(CellText(CellAt(sheet, 0, c))) :
        c \in {x \in 0..25 : CellAt(sheet, 0, x).t # "none"}}

\* The detection with `some` in the place of `every`
isSimpleBiometricFormatBySome(sheet) ==
    /\ sheet.hasRef
    /\ requiredSimpleHeaders \cap HeaderRowTexts(sheet) # {}

isSimpleBiometricFormat(sheet) ==
    /\ sheet.hasRef
    /\ requiredSimpleHeaders \subseteq HeaderRowTexts(sheet)


\* ------------------------------------------------------------------------
\* The workbooks the loads are given
\* ------------------------------------------------------------------------
Sheet(hasRef, er, ec, cells, merges) ==
    [hasRef |-> hasRef, er |-> er, ec |-> ec, cells |-> cells, merges |-> merges]

Workbook(readable, sheets) == [readable |-> readable, sheets |-> sheets]

\* The caption row of a block sheet: the date range and the tabling date
Captions(rangeText, tablingCell) ==
    (<<0, 0>> :> Txt("Date")) @@ (<<0, 1>> :> Txt(rangeText))
    @@ (<<0, 3>> :> Txt("Tabling date:")) @@ (<<0, 4>> :> tablingCell)

\* The day-anchor header and the In/Out sub-headers of a block at column c
Anchor(c, label) ==
    (<<3, c>> :> Txt(label))
    @@ (<<4, c + 1>> :> Txt("In")) @@ (<<4, c + 3>> :> Txt("Out"))
    @@ (<<4, c + 6>> :> Txt("In")) @@ (<<4, c + 8>> :> Txt("Out"))

NameHeader(c, name) == (<<1, c>> :> Txt("Name")) @@ (<<1, c + 1>> :> Txt(name))
IdHeader(c, idCell) == (<<2, c>> :> Txt("User ID")) @@ (<<2, c + 1>> :> idCell)
DeptHeader(c, dept) == (<<1, c + 3>> :> Txt("Dept.")) @@ (<<1, c + 4>> :> Txt(dept))

\* A data row: the day cell and the four AM/PM time cells that are not empty
DataRow(r, c, dayCell, ai, ao, pi, po) ==
    LET at(col, text) == IF text = "" THEN <<>> ELSE (<<r, col>> :> Txt(text))
    IN (<<r, c>> :> dayCell) @@ at(c + 1, ai) @@ at(c + 3, ao)
       @@ at(c + 6, pi) @@ at(c + 8, po)

AprilRange == DateRangeText(2025, 4, 1, 30)

\* Two blocks of April 2025: Ana Cruz (with department) and Ben Diaz (without)
AprilSheet ==
    Sheet(TRUE, 7, 35,
        Captions(AprilRange, Txt("2025-05-02"))
        @@ NameHeader(0, " Ana Cruz") @@ IdHeader(0, Num(101))
        @@ DeptHeader(0, "HR") @@ Anchor(0, "Date/Weekday")
        @@ DataRow(5, 0, Txt("01 Tue"), "08:15", "12:00", "13:00", "17:00")
        @@ DataRow(6, 0, Txt("02 Wed"), "08:00", "12:00", "13:00", "18:30")
        @@ DataRow(7, 0, Num(5), "", "", "", "")
        @@ NameHeader(15, "Ben Diaz") @@ IdHeader(15, Txt("102"))
        @@ Anchor(15, "Date / Weekday")
        @@ DataRow(5, 15, Num(1), "08:00", "12:00", "", "")
        @@ (<<5, 15 + 14>> :> Txt("1:30")),
        <<>>)

\* The same employees of April 2025 with other rows: Ana Cruz has day 3 only
\* and moved to another department, Ben Diaz has no row with a time
AprilSheetRevised ==
    Sheet(TRUE, 6, 35,
        Captions(AprilRange, Txt("2025-05-09"))
        @@ NameHeader(0, "Ana Cruz") @@ IdHeader(0, Num(101))
        @@ DeptHeader(0, "Finance") @@ Anchor(0, "Date/Weekday")
        @@ DataRow(5, 0, Txt("03 Thu"), "08:00", "12:00", "13:00", "16:30")
        @@ NameHeader(15, "Ben Diaz") @@ IdHeader(15, Txt("102"))
        @@ Anchor(15, "Date/Weekday")
        @@ DataRow(5, 15, Num(1), "", "", "", ""),
        <<>>)

\* One block, no date-range caption: the month falls back to the clock
UndatedSheet ==
    Sheet(TRUE, 6, 20,
        NameHeader(0, "Cara Lim") @@ IdHeader(0, Txt("103"))
        @@ Anchor(0, "Date/Weekday")
        @@ DataRow(5, 0, Num(2), "08:30", "12:00", "13:00", "17:00")
        @@ DataRow(6, 0, Num(5), "abc", "12:00", "", ""),
        <<>>)

\* Three blocks of February 2025: the first has no User ID value, the second
\* no Name header, the third (Dan Sy) is complete
MalformedSheet ==
    Sheet(TRUE, 5, 50,
        Captions(DateRangeText(2025, 2, 1, 28), Txt(""))
        @@ NameHeader(0, "No Id") @@ (<<2, 0>> :> Txt("User ID"))
        @@ Anchor(0, "Date/Weekday")
        @@ DataRow(5, 0, Num(3), "08:00", "12:00", "", "")
        @@ IdHeader(15, Txt("777")) @@ Anchor(15, "Date/Weekday")
        @@ DataRow(5, 15, Num(3), "08:00", "12:00", "", "")
        @@ NameHeader(30, "Dan Sy") @@ IdHeader(30, Txt("104"))
        @@ Anchor(30, "Date/Weekday")
        @@ DataRow(5, 30, Num(3), "08:00", "12:00", "13:00", "17:00"),
        <<>>)

\* A worksheet with cells and no day-anchor header
NotesSheet ==
    Sheet(TRUE, 1, 1,
        (<<0, 0>> :> Txt("Notes")) @@ (<<1, 0>> :> Txt("Name"))
        @@ (<<1, 1>> :> Txt("Nobody")),
        <<>>)

\* A worksheet without any cell: it has no "!ref"
EmptySheet == Sheet(FALSE, 0, 0, <<>>, <<>>)

\* One block of April 2025 for Eli Go
EliSheet ==
    Sheet(TRUE, 5, 20,
        Captions(AprilRange, Txt("2025-05-02"))
        @@ NameHeader(0, "Eli Go") @@ IdHeader(0, Txt("105"))
        @@ Anchor(0, "Date/Weekday")
        @@ DataRow(5, 0, Num(4), "08:00", "12:00", "13:00", "17:00"),
        <<>>)

SimpleHeaders ==
    (<<0, 0>> :> Txt("Name")) @@ (<<0, 1>> :> Txt("Date"))
    @@ (<<0, 2>> :> Txt("Timetable")) @@ (<<0, 3>> :> Txt("Clock In"))
    @@ (<<0, 4>> :> Txt("Clock Out"))

SimpleDataRow(r, name, date, timetable, clockIn, clockOut) ==
    (<<r, 0>> :> Txt(name)) @@ (<<r, 1>> :> Txt(date))
    @@ (<<r, 2>> :> Txt(timetable)) @@ (<<r, 3>> :> Txt(clockIn))
    @@ (<<r, 4>> :> Txt(clockOut))

\* Flat clock events of Fe Uy in April 2025 and in February 2025
SimpleSheet ==
    Sheet(TRUE, 4, 4,
        SimpleHeaders
        @@ SimpleDataRow(1, "Fe Uy", "15/04/2025", "AM", "08:15", "12:00")
        @@ SimpleDataRow(2, "Fe Uy", "15/04/2025", "pm", "13:00", "16:30")
        @@ SimpleDataRow(3, "Fe Uy", "02/14/2025", "AM", "08:00", "12:00")
        @@ SimpleDataRow(4, "", "16/04/2025", "AM", "08:00", "12:00"),
        <<>>)

Files ==
    << Workbook(TRUE, <<AprilSheet>>),
       Workbook(TRUE, <<AprilSheetRevised>>),
       Workbook(TRUE, <<UndatedSheet, NotesSheet, UndatedSheet>>),
       Workbook(TRUE, <<MalformedSheet, NotesSheet, EliSheet>>),
       Workbook(TRUE, <<EliSheet, EmptySheet, AprilSheet>>),
       Workbook(TRUE, <<SimpleSheet>>),
       Workbook(FALSE, <<>>),
       Workbook(TRUE, <<>>),
       Workbook(TRUE, <<NotesSheet, NotesSheet, UndatedSheet, EmptySheet>>) >>

FileIds == 1..Len(Files)


\* ------------------------------------------------------------------------
\* Reading and parsing a workbook (loadMultiSheetEmployeeAttendance, before
\* it touches the database)
\* ------------------------------------------------------------------------
SHEET_LIMIT == 20

RECURSIVE ParseSheets(_, _, _)
\* for (let i = 0; i < workbook.SheetNames.length && i < 20; i++)
ParseSheets(sheets, i, thisMonth) ==
    IF i > Len(sheets) \/ i > SHEET_LIMIT THEN <<>>
    ELSE parseSingleEmployeeAttendanceSheet(sheets[i], thisMonth)
         \o ParseSheets(sheets, i + 1, thisMonth)

\* A worksheet the block-format loop visits makes decode_range throw
AnySheetThrows(sheets) ==
    \E i \in 1..Len(sheets) : i <= SHEET_LIMIT /\ SheetThrows(sheets[i])

RECURSIVE ParseGoodSheets(_, _, _)
\* The sheet loop with a try/catch around each sheet
ParseGoodSheets(sheets, i, thisMonth) ==
    IF i > Len(sheets) \/ i > SHEET_LIMIT THEN <<>>
    ELSE (IF SheetThrows(sheets[i]) THEN <<>>
          ELSE parseSingleEmployeeAttendanceSheet(sheets[i], thisMonth))
         \o ParseGoodSheets(sheets, i + 1, thisMonth)

\* A load that skips the worksheets that throw and stores the others
ReadAndParseSkippingSheets(workbook, thisMonth) ==
    IF ~workbook.readable
    THEN [outcome |-> "readFailed", employees |-> <<>>]
    ELSE IF Len(workbook.sheets) = 0
    THEN [outcome |-> "noSheets", employees |-> <<>>]
    ELSE IF isSimpleBiometricFormat(workbook.sheets[1])
    THEN [outcome |-> "parsed",
          employees |-> parseSimpleBiometric(workbook.sheets[1])]
    ELSE [outcome |-> "parsed",
          employees |-> ParseGoodSheets(workbook.sheets, 1, thisMonth)]

\* What the try block has in hand when it reaches the database statements:
\* "readFailed" (xlsx.readFile threw), "noSheets" (early return),
\* "parseFailed" (a parser threw) or "parsed" with allParsedEmployeesData
ReadAndParse(workbook, thisMonth) ==
    IF ~workbook.readable
    THEN [outcome |-> "readFailed", employees |-> <<>>]
    ELSE IF Len(workbook.sheets) = 0
    THEN [outcome |-> "noSheets", employees |-> <<>>]
    ELSE IF isSimpleBiometricFormat(workbook.sheets[1])
    THEN [outcome |-> "parsed",
          employees |-> parseSimpleBiometric(workbook.sheets[1])]
    ELSE IF AnySheetThrows(workbook.sheets)
    THEN [outcome |-> "parseFailed", employees |-> <<>>]
    ELSE [outcome |-> "parsed",
          employees |-> ParseSheets(workbook.sheets, 1, thisMonth)]

\* ------------------------------------------------------------------------
\* Bounds of the model
\* ------------------------------------------------------------------------
MaxLoads == 3
MaxTicks == 1

\* The calendar month the process clock shows after k month changes
RECURSIVE MonthAfter(_, _)
MonthAfter(ym, k) ==
    IF k = 0 THEN ym
    ELSE MonthAfter(IF ym.m = 12 THEN [y |-> ym.y + 1, m |-> 1]
                    ELSE [y |-> ym.y, m |-> ym.m + 1], k - 1)

StartMonth == [y |-> 2026, m |-> 11]

ClockMonths == {MonthAfter(StartMonth, k) : k \in 0..MaxTicks}

\* The parse of every workbook under every clock month, computed once
ParseTable ==
    [f \in FileIds |-> [t \in ClockMonths |-> ReadAndParse(Files[f], t)]]

\* ------------------------------------------------------------------------
\* State
\* ------------------------------------------------------------------------
VARIABLES
    today,            \* the calendar month of the process clock
    employees,        \* rows of table employees
    time_records,     \* rows of table time_records
    seqEmployees,     \* AUTOINCREMENT counter of employees
    seqTimeRecords,   \* AUTOINCREMENT counter of time_records
    pc,               \* "idle", or the statement the transaction runs next
    idx,              \* index of the employee the transaction processes
    pos,              \* next timeCard position of that employee
    employeeId,       \* employeeId of that employee
    before,           \* the tables when the latest load began
    lastLoad,         \* file, clock month and outcome of the latest load
    prevLoad,         \* the same of the load before it
    failedAt,         \* where the latest persistence failure struck
    loadReturn,       \* what the latest load call gave its caller
    response,         \* the answer of the latest POST /upload
    loads,            \* number of loads begun
    biometricData,    \* the in-memory data of the attendance controller
    lastGoodData,     \* the data of the controller's last successful load
    ctlOutcome,       \* outcome of the controller's latest load
    ctlLoads,         \* number of controller loads
    calcInput,        \* a raw record and a date
    calcFromTimes,    \* the block calculator's metrics for calcInput
    calcForSimple,    \* the simple calculator's metrics for calcInput
    formatInput,      \* a workbook given to the format detection
    formatDetected,   \* what isSimpleBiometricFormat answered for its first sheet
    formatParsed,     \* what the load parsed of the workbook
    blockSheet,       \* a worksheet given to the block discovery
    blockPc,          \* "idle", "discover", "forEach" or "done"
    blockColumns,     \* sortedDayColumnIndices
    blockSpans,       \* the header search ranges of the blocks processed
    blockEmployees,   \* parsedEmployees
    summaryInput,     \* an employee and a month text
    summaryOutput,    \* what calculateEmployeeTimeSummary returned for them
    scanInput,        \* a worksheet, the month and the block a row scan reads
    scanPc,           \* "idle", "scan" or "done"
    scanRow,          \* R of the for loop over the rows
    scanRecords,      \* dailyExcelRecords
    platform,         \* process.platform
    appState,         \* "launching", "ready" or "quit" (Electron app)
    mainWindow,       \* the open BrowserWindow: 0 none, else the createWindow call that made it
    loadedWindows,    \* the windows whose loadURL was called
    listenCalls,      \* number of expressApp.listen(PORT) calls
    portOwner,        \* who listens on PORT: "free", "app" or "other"
    pendingCallbacks, \* createWindow calls whose listen callback is still to run
    pendingErrors,    \* createWindow calls whose server 'error' event is still to be emitted
    quitBy,           \* what called app.quit(): "none", "window-all-closed" or "server error"
    reqKind,          \* the request the server is handling, "none" when idle
    reqStage,         \* "none", "route", "error" or "answered"
    resStatus,        \* res.statusCode
    errStatusCode,    \* err.statusCode of the error passed to next, 0 when undefined
    reqLoads,         \* loads performed for the request
    generateInput,    \* a day of a POST /generate or /generate-batch request
    generateShown     \* the undertime the handler shows for that day

storeVars == <<employees, time_records, seqEmployees, seqTimeRecords>>
txnVars == <<pc, idx, pos, employeeId>>
loadVars == <<before, lastLoad, prevLoad, failedAt, loadReturn, response, loads>>
ctlVars == <<biometricData, lastGoodData, ctlOutcome, ctlLoads>>
calcVars == <<calcInput, calcFromTimes, calcForSimple>>
formatVars == <<formatInput, formatDetected, formatParsed>>
blockVars == <<blockSheet, blockPc, blockColumns, blockSpans, blockEmployees>>
summaryVars == <<summaryInput, summaryOutput>>
scanVars == <<scanInput, scanPc, scanRow, scanRecords>>
electronVars == <<platform, appState, mainWindow, loadedWindows, listenCalls, portOwner, pendingCallbacks, pendingErrors, quitBy>>
requestVars == <<reqKind, reqStage, resStatus, errStatusCode, reqLoads>>
appVars == <<electronVars, requestVars>>
generateVars == <<generateInput, generateShown>>
unitVars == <<formatVars, blockVars, summaryVars, scanVars, appVars, generateVars>>
unitsButFormat == <<blockVars, summaryVars, scanVars, appVars, generateVars>>
unitsButBlocks == <<formatVars, summaryVars, scanVars, appVars, generateVars>>
unitsButSummary == <<formatVars, blockVars, scanVars, appVars, generateVars>>
unitsButScan == <<formatVars, blockVars, summaryVars, appVars, generateVars>>
unitsButApp == <<formatVars, blockVars, summaryVars, scanVars, generateVars>>
unitsButGenerate == <<formatVars, blockVars, summaryVars, scanVars, appVars>>
vars == <<today, storeVars, txnVars, loadVars, ctlVars, calcVars, unitVars>>

Store == [employees |-> employees, time_records |-> time_records,
          seqEmployees |-> seqEmployees, seqTimeRecords |-> seqTimeRecords]

EmptyStore == [employees |-> {}, time_records |-> {},
               seqEmployees |-> 0, seqTimeRecords |-> 0]

NoLoad == [file |-> 0, today |-> StartMonth, outcome |-> "none"]
NoFailure == [idx |-> 0, step |-> "none", pos |-> 0]

\* allParsedEmployeesData of the latest load
Parsed ==
    IF lastLoad.file = 0 THEN <<>>
    ELSE ParseTable[lastLoad.file][lastLoad.today].employees


\* ------------------------------------------------------------------------
\* The database statements of loadMultiSheetEmployeeAttendance
\* ------------------------------------------------------------------------
\* The SELECT bound to the wrong column: the month column is compared with
\* the attendance date range
ExistingEmployeeByRange(rows, employee) ==
    {row \in rows : /\ row.userId = employee.userId
                    /\ row.name = employee.name
                    /\ row.month = employee.attendanceDateRange}

\* SELECT id FROM employees WHERE userId = ? AND name = ? AND month = ?
ExistingEmployee(rows, employee) ==
    {row \in rows : /\ row.userId = employee.userId
                    /\ row.name = employee.name
                    /\ row.month = employee.month}

\* UPDATE employees SET department, attendanceDateRange, tablingDate WHERE id
UpdateEmployee(rows, id, employee) ==
    {IF row.id = id
     THEN [row EXCEPT !.department = employee.department,
                      !.attendanceDateRange = employee.attendanceDateRange,
                      !.tablingDate = employee.tablingDate]
     ELSE row : row \in rows}

\* INSERT INTO employees (...) VALUES (...)
InsertEmployee(rows, id, employee) ==
    rows \cup {[id |-> id, userId |-> employee.userId, name |-> employee.name,
                department |-> employee.department, month |-> employee.month,
                attendanceDateRange |-> employee.attendanceDateRange,
                tablingDate |-> employee.tablingDate]}

\* The DELETE bound to the wrong column: WHERE id = ?
DeleteTimeRecordsByRowId(rows, id) == {row \in rows : row.id # id}

\* DELETE FROM time_records WHERE employee_id = ?
DeleteTimeRecords(rows, id) == {row \in rows : row.columns.employee_id # id}

\* The guard of insertTimeRecordStmt.run: the day has a time entry
RecordHasData(record) ==
    \/ Truthy(record.am_arrival) \/ Truthy(record.am_departure)
    \/ Truthy(record.pm_arrival) \/ Truthy(record.pm_departure)
    \/ Truthy(record.ot_arrival) \/ Truthy(record.ot_departure)

\* The columns of a time_records row other than its id
RecordColumns(id, record) ==
    [employee_id |-> id, day |-> record.day, dateWeekday |-> record.dateWeekday,
     am_arrival |-> record.am_arrival, am_departure |-> record.am_departure,
     pm_arrival |-> record.pm_arrival, pm_departure |-> record.pm_departure,
     ot_arrival |-> record.ot_arrival, ot_departure |-> record.ot_departure,
     total_hours |-> record.total_hours, late |-> record.late,
     early_out |-> record.early_out, overtime |-> record.overtime,
     remarks |-> record.remarks, undertime_hours |-> record.undertime_hours,
     undertime_minutes |-> record.undertime_minutes]

\* INSERT INTO time_records (...) VALUES (...)
InsertTimeRecordRow(rows, rowId, id, record) ==
    rows \cup {[id |-> rowId, columns |-> RecordColumns(id, record)]}

\* The first position from `from` on whose timeCard entry has a time entry,
\* 0 when the for loop over the timeCard finds no more
NextDataPos(timeCard, from) ==
    LET hits == {i \in from..Len(timeCard) : RecordHasData(timeCard[i])}
    IN IF hits = {} THEN 0 ELSE CHOOSE i \in hits : \A j \in hits : i <= j

\* The statements run outside a transaction: what was written stays
TablesWithoutRollback(current, atBegin) == current

\* What a statement that throws inside db.transaction(...)() leaves in the
\* tables: the transaction is rolled back to the tables it began with
TablesAfterFailure(current, atBegin) == atBegin

\* ------------------------------------------------------------------------
\* Actions: the clock, and a load called by POST /upload
\* ------------------------------------------------------------------------
\* The calendar month changes between two requests
Tick ==
    /\ pc = "idle"
    /\ today # MonthAfter(StartMonth, MaxTicks)
    /\ today' = MonthAfter(today, 1)
    /\ UNCHANGED <<storeVars, txnVars, loadVars, ctlVars, calcVars, unitVars>>

\* What loadMultiSheetEmployeeAttendance hands to its caller for each way it
\* ends: it has no return value, and its catch block returns after logging
LoadReturns(outcome) == "undefined"

\* What POST /upload answers after the load returned
UploadResponds(returned) == "redirect /form"

\* The load ends: it returns to the handler, which answers the request
Finished(file, outcome) ==
    /\ lastLoad' = [file |-> file, today |-> today, outcome |-> outcome]
    /\ loadReturn' = LoadReturns(outcome)
    /\ response' = UploadResponds(LoadReturns(outcome))

\* POST /upload with a file: the load runs up to the transaction. A load
\* that cannot be read or parsed, or that parsed no employee, ends here.
BeginLoad(f) ==
    LET result == ParseTable[f][today]
    IN /\ pc = "idle"
       /\ loads < MaxLoads
       /\ loads' = loads + 1
       /\ prevLoad' = lastLoad
       /\ before' = Store
       /\ failedAt' = NoFailure
       /\ IF result.outcome # "parsed"
          THEN /\ Finished(f, result.outcome)
               /\ UNCHANGED <<pc, idx>>
          ELSE IF Len(result.employees) = 0
          THEN /\ Finished(f, "stored")
               /\ UNCHANGED <<pc, idx>>
          ELSE /\ lastLoad' = [file |-> f, today |-> today, outcome |-> "running"]
               /\ pc' = "upsert"
               /\ idx' = 1
               /\ UNCHANGED <<loadReturn, response>>
       /\ UNCHANGED <<today, storeVars, pos, employeeId, ctlVars, calcVars, unitVars>>

\* The upsert without its SELECT: every employee of the file is inserted
UpsertStatementsWithoutSelect(employee, existing) ==
    /\ employees' = InsertEmployee(employees, seqEmployees + 1, employee)
    /\ employeeId' = seqEmployees + 1
    /\ seqEmployees' = seqEmployees + 1

\* The SELECT of the composite key, then the UPDATE or the INSERT
UpsertStatements(employee, existing) ==
    IF existing # {}
    THEN /\ employees' = UpdateEmployee(employees,
                             (CHOOSE row \in existing : TRUE).id, employee)
         /\ employeeId' = (CHOOSE row \in existing : TRUE).id
         /\ UNCHANGED seqEmployees
    ELSE /\ employees' = InsertEmployee(employees, seqEmployees + 1, employee)
         /\ employeeId' = seqEmployees + 1
         /\ seqEmployees' = seqEmployees + 1

UpsertEmployee ==
    /\ pc = "upsert"
    /\ UpsertStatements(Parsed[idx], ExistingEmployee(employees, Parsed[idx]))
    /\ pc' = "delete"
    /\ UNCHANGED <<today, time_records, seqTimeRecords, idx, pos, loadVars,
                   ctlVars, calcVars, unitVars>>

\* The DELETE of the employee's day records
DeleteOldRecords ==
    /\ pc = "delete"
    /\ time_records' = DeleteTimeRecords(time_records, employeeId)
    /\ pc' = "insert"
    /\ pos' = 1
    /\ UNCHANGED <<today, employees, seqEmployees, seqTimeRecords, idx,
                   employeeId, loadVars, ctlVars, calcVars, unitVars>>

\* The position of the next timeCard entry the loop inserts, 0 when the loop
\* over the employee's timeCard is over
NextInsert == NextDataPos(Parsed[idx].timeCard, pos)

\* The INSERT of the next timeCard entry that has a time entry
InsertTimeRecord ==
    /\ pc = "insert"
    /\ NextInsert # 0
    /\ time_records' = InsertTimeRecordRow(time_records, seqTimeRecords + 1,
                           employeeId, Parsed[idx].timeCard[NextInsert])
    /\ seqTimeRecords' = seqTimeRecords + 1
    /\ pos' = NextInsert + 1
    /\ UNCHANGED <<today, employees, seqEmployees, pc, idx, employeeId,
                   loadVars, ctlVars, calcVars, unitVars>>

\* The timeCard of the employee is done: on to the next employee
NextEmployee ==
    /\ pc = "insert"
    /\ NextInsert = 0
    /\ idx < Len(Parsed)
    /\ idx' = idx + 1
    /\ pc' = "upsert"
    /\ UNCHANGED <<today, storeVars, pos, employeeId, loadVars, ctlVars, calcVars, unitVars>>

\* The last employee is done: the transaction commits and the load returns
Commit ==
    /\ pc = "insert"
    /\ NextInsert = 0
    /\ idx = Len(Parsed)
    /\ pc' = "idle"
    /\ Finished(lastLoad.file, "stored")
    /\ UNCHANGED <<today, storeVars, idx, pos, employeeId, before, prevLoad,
                   failedAt, loads, ctlVars, calcVars, unitVars>>

\* The statement the transaction runs next throws: the transaction rolls
\* back, the catch block logs the error and the load returns
StatementFails ==
    LET after == TablesAfterFailure(Store, before)
    IN /\ pc \in {"upsert", "delete", "insert"}
       /\ employees' = after.employees
       /\ time_records' = after.time_records
       /\ seqEmployees' = after.seqEmployees
       /\ seqTimeRecords' = after.seqTimeRecords
       /\ failedAt' = [idx |-> idx, step |-> pc, pos |-> pos]
       /\ pc' = "idle"
       /\ Finished(lastLoad.file, "persistFailed")
       /\ UNCHANGED <<today, idx, pos, employeeId, before, prevLoad, loads,
                      ctlVars, calcVars, unitVars>>

\* The object literal {}
EmptyObject == <<>>

InitCommon ==
    /\ today = StartMonth
    /\ employees = {} /\ time_records = {}
    /\ seqEmployees = 0 /\ seqTimeRecords = 0
    /\ pc = "idle" /\ idx = 0 /\ pos = 0 /\ employeeId = 0
    /\ before = EmptyStore
    /\ lastLoad = NoLoad /\ prevLoad = NoLoad
    /\ failedAt = NoFailure
    /\ loadReturn = "none" /\ response = "none"
    /\ loads = 0
    /\ biometricData = EmptyObject /\ lastGoodData = EmptyObject
    /\ ctlOutcome = [file |-> 0, result |-> "none"] /\ ctlLoads = 0

NoCalc == [total_hours |-> "none"]

\* No calculator and no other function is under examination
IdleCalc == calcInput = NoCalc /\ calcFromTimes = NoCalc /\ calcForSimple = NoCalc

NoParse == [outcome |-> "none", employees |-> <<>>]

IdleFormat ==
    /\ formatInput = [readable |-> FALSE, sheets |-> <<>>]
    /\ formatDetected = "none" /\ formatParsed = NoParse

IdleBlocks ==
    /\ blockSheet = EmptySheet /\ blockPc = "idle" /\ blockColumns = <<>>
    /\ blockSpans = <<>> /\ blockEmployees = <<>>

NoEmployee == [isNull |-> TRUE, timeCard |-> <<>>]
NoSummary == [timeSummary |-> <<>>, daysInMonth |-> NULL]

IdleSummary ==
    summaryInput = [employee |-> NoEmployee, month |-> ""] /\ summaryOutput = NoSummary

IdleScan ==
    /\ scanInput = [sheet |-> EmptySheet, reportMonth |-> "", dayColIndex |-> 0,
                    timecardDataStartRow |-> 0]
    /\ scanPc = "idle" /\ scanRow = 0 /\ scanRecords = <<>>

IdleRequest ==
    /\ reqKind = "none" /\ reqStage = "none" /\ resStatus = 0
    /\ errStatusCode = 0 /\ reqLoads = 0

IdleApp ==
    /\ platform = "none" /\ appState = "launching" /\ mainWindow = 0
    /\ loadedWindows = {} /\ listenCalls = 0 /\ portOwner = "free"
    /\ pendingCallbacks = {} /\ pendingErrors = {} /\ quitBy = "none"
    /\ IdleRequest

NoDay == [route |-> "none"]
NoShown == <<"none", "none">>

IdleGenerate == generateInput = NoDay /\ generateShown = NoShown

IdleUnits ==
    IdleFormat /\ IdleBlocks /\ IdleSummary /\ IdleScan /\ IdleApp /\ IdleGenerate

Init ==
    /\ InitCommon
    /\ IdleCalc
    /\ IdleUnits

Next ==
    \/ Tick
    \/ \E f \in FileIds : BeginLoad(f)
    \/ UpsertEmployee
    \/ DeleteOldRecords
    \/ InsertTimeRecord
    \/ NextEmployee
    \/ Commit
    \/ StatementFails

Spec == Init /\ [][Next]_vars

\* ------------------------------------------------------------------------
\* The in-memory attendance controller
\* ------------------------------------------------------------------------
\* The employees of a list under a key
WithUserId(list, key) == {i \in 1..Len(list) : list[i].userId = key}

\* The last employee of a list under a key
LastWithUserId(list, key) ==
    list[CHOOSE i \in WithUserId(list, key) : \A j \in WithUserId(list, key) : j <= i]

\* The sheetData object of a worksheet: its employees by user id (the body
\* of the controller's parser is the one of the upload route)
ControllerSheetData(list) ==
    [key \in {list[i].userId : i \in 1..Len(list)} |-> LastWithUserId(list, key)]

\* Object.assign(target, source)
ObjectAssign(target, source) ==
    [key \in DOMAIN target \cup DOMAIN source |->
        IF key \in DOMAIN source THEN source[key] ELSE target[key]]

CTL_FIRST_SHEET == 2
CTL_LAST_SHEET == 4

RECURSIVE ControllerSheets(_, _, _, _)
\* for (let i = 2; i <= 4; i++) { if (!sheetName) break; ... Object.assign }
\* (i is the 0-based index of the sheet)
ControllerSheets(sheets, i, thisMonth, allParsedEmployeesData) ==
    IF i > CTL_LAST_SHEET \/ i + 1 > Len(sheets) THEN allParsedEmployeesData
    ELSE ControllerSheets(sheets, i + 1, thisMonth,
            ObjectAssign(allParsedEmployeesData,
                ControllerSheetData(
                    parseSingleEmployeeAttendanceSheet(sheets[i + 1], thisMonth))))

\* The try block of the controller's load throws: the file cannot be read,
\* or a worksheet it visits has no range
ControllerThrows(workbook) ==
    \/ ~workbook.readable
    \/ \E i \in CTL_FIRST_SHEET..CTL_LAST_SHEET :
          i + 1 <= Len(workbook.sheets) /\ SheetThrows(workbook.sheets[i + 1])

\* biometricData after the catch block
DataAfterFailure(current) == EmptyObject

\* The controller's load of every workbook under every clock month
ControllerTable ==
    [f \in FileIds |-> [t \in ClockMonths |->
        IF ControllerThrows(Files[f]) THEN [threw |-> TRUE, data |-> EmptyObject]
        ELSE [threw |-> FALSE,
              data |-> ControllerSheets(Files[f].sheets, CTL_FIRST_SHEET, t,
                                        EmptyObject)]]]

\* loadMultiSheetEmployeeAttendance(filePath) of the controller
ControllerLoad(f, result) ==
    /\ ctlLoads < MaxLoads
    /\ ctlLoads' = ctlLoads + 1
    /\ IF result.threw
       THEN /\ biometricData' = DataAfterFailure(biometricData)
            /\ ctlOutcome' = [file |-> f, result |-> "failed"]
            /\ UNCHANGED lastGoodData
       ELSE /\ biometricData' = result.data
            /\ ctlOutcome' = [file |-> f, result |-> "loaded"]
            /\ lastGoodData' = result.data

\* initialLoad(): DTR.xlsx of the uploads folder, when it exists
initialLoad ==
    /\ \/ \E f \in FileIds : ControllerLoad(f, ControllerTable[f][today])
       \/ /\ ctlLoads < MaxLoads
          /\ ctlLoads' = ctlLoads + 1
          /\ ctlOutcome' = [file |-> 0, result |-> "skipped"]
          /\ UNCHANGED <<biometricData, lastGoodData>>
    /\ UNCHANGED <<today, storeVars, txnVars, loadVars, calcVars, unitVars>>

\* reloadData(filePath)
reloadData(f) ==
    /\ ControllerLoad(f, ControllerTable[f][today])
    /\ UNCHANGED <<today, storeVars, txnVars, loadVars, calcVars, unitVars>>

getBiometricData == biometricData

\* Object.values(biometricData).map(emp => ({userId, name}))
getAllEmployees ==
    {[userId |-> biometricData[key].userId, name |-> biometricData[key].name] :
        key \in DOMAIN biometricData}

NextController ==
    \/ Tick
    \/ initialLoad
    \/ \E f \in FileIds : reloadData(f)

SpecController == Init /\ [][NextController]_vars

\* ------------------------------------------------------------------------
\* The calculators applied to one raw record of one day
\* ------------------------------------------------------------------------
CalcArrivals == {"", "08:00", "08:15", "08:59:45", "late"}
CalcLunchOut == {"", "12:00", "10:19"}
CalcLunchIn == {"", "13:00"}
CalcDepartures == {"", "16:00:20", "17:00", "17:55", "18:00", "18:06", "18:30"}
CalcOvertimePairs == {<<"", "">>, <<"18:00", "18:46">>, <<"18:10", "19:00">>}
CalcLateTexts == {UNDEF, "0h 05m"}
CalcUndertimeTexts == {UNDEF, "1:30", "n/a"}
CalcOvertimeTexts == {UNDEF, "2h 00m"}
CalcTotalTexts == {UNDEF, "8h 00m"}
\* A Friday, a Saturday and a Sunday
CalcDays == {<<2025, 4, 4>>, <<2025, 4, 5>>, <<2025, 4, 6>>}

CalcInputs ==
    {[record |-> RawRecord(ai, ao, pi, po, ot[1], ot[2], lateX, utX, otX, totX),
      year |-> d[1], monthNum |-> d[2], day |-> d[3]] :
        ai \in CalcArrivals, ao \in CalcLunchOut, pi \in CalcLunchIn,
        po \in CalcDepartures, ot \in CalcOvertimePairs,
        lateX \in CalcLateTexts, utX \in CalcUndertimeTexts,
        otX \in CalcOvertimeTexts, totX \in CalcTotalTexts, d \in CalcDays}

InitCalc ==
    /\ InitCommon
    /\ calcInput \in CalcInputs
    /\ calcFromTimes = NoCalc /\ calcForSimple = NoCalc
    /\ IdleUnits

ApplyFromTimes ==
    /\ calcFromTimes = NoCalc
    /\ calcFromTimes' = calculateDailyMetricsFromTimes(calcInput.record,
                            calcInput.year, calcInput.monthNum, calcInput.day)
    /\ UNCHANGED <<today, storeVars, txnVars, loadVars, ctlVars, calcInput,
                   calcForSimple, unitVars>>

ApplyForSimpleParser ==
    /\ calcForSimple = NoCalc
    /\ calcForSimple' = calculateDailyMetricsFromTimesForSimpleParser(
                            calcInput.record, calcInput.year,
                            calcInput.monthNum, calcInput.day)
    /\ UNCHANGED <<today, storeVars, txnVars, loadVars, ctlVars, calcInput,
                   calcFromTimes, unitVars>>

NextCalc == ApplyFromTimes \/ ApplyForSimpleParser

SpecCalc == InitCalc /\ [][NextCalc]_vars

\* ------------------------------------------------------------------------
\* The format detection applied to one workbook
\* ------------------------------------------------------------------------
\* The spellings of the five header labels in a header row, "" for a label
\* the row does not carry
FormatSpellings ==
    << {"Name", " Name ", ""}, {"Date", "DATE", ""}, {"Timetable", "TIMETABLE"},
       {"Clock In", ""}, {"Clock Out ", ""} >>

\* The columns the five labels stand in: A..E, E..A, V..Z, and W..AA (the last
\* label beyond column Z)
FormatLayouts ==
    {<<0, 1, 2, 3, 4>>, <<4, 3, 2, 1, 0>>, <<21, 22, 23, 24, 25>>,
     <<22, 23, 24, 25, 26>>}

\* A first worksheet with the header row and one clock event of Fe Uy under it
FormatSheet(spelling, layout) ==
    LET at(r, i, text) ==
            IF text = "" THEN <<>> ELSE (<<r, layout[i]>> :> Txt(text))
        row == <<"Fe Uy", "15/04/2025", "AM", "08:15", "12:00">>
    IN Sheet(TRUE, 1, 26,
             at(0, 1, spelling[1]) @@ at(0, 2, spelling[2]) @@ at(0, 3, spelling[3])
             @@ at(0, 4, spelling[4]) @@ at(0, 5, spelling[5])
             @@ at(1, 1, IF spelling[1] = "" THEN "" ELSE row[1])
             @@ at(1, 2, IF spelling[2] = "" THEN "" ELSE row[2])
             @@ at(1, 3, IF spelling[3] = "" THEN "" ELSE row[3])
             @@ at(1, 4, IF spelling[4] = "" THEN "" ELSE row[4])
             @@ at(1, 5, IF spelling[5] = "" THEN "" ELSE row[5]),
             <<>>)

\* The workbooks: the first worksheet, followed by a block-format worksheet
FormatInputs ==
    {Workbook(TRUE, <<FormatSheet(<<s1, s2, s3, s4, s5>>, layout), EliSheet>>) :
        s1 \in FormatSpellings[1], s2 \in FormatSpellings[2],
        s3 \in FormatSpellings[3], s4 \in FormatSpellings[4],
        s5 \in FormatSpellings[5], layout \in FormatLayouts}

InitFormat ==
    /\ InitCommon
    /\ IdleCalc
    /\ formatInput \in FormatInputs
    /\ formatDetected = "none" /\ formatParsed = NoParse
    /\ IdleBlocks /\ IdleSummary /\ IdleScan /\ IdleApp /\ IdleGenerate

\* isSimpleBiometricFormat(firstSheet)
DetectFormat ==
    /\ formatDetected = "none"
    /\ formatDetected' = IF isSimpleBiometricFormat(formatInput.sheets[1])
                          THEN "simple" ELSE "block"
    /\ UNCHANGED <<today, storeVars, txnVars, loadVars, ctlVars, calcVars,
                   formatInput, formatParsed, unitsButFormat>>

\* loadMultiSheetEmployeeAttendance up to allParsedEmployeesData
ParseDetected ==
    /\ formatParsed = NoParse
    /\ formatParsed' = ReadAndParse(formatInput, today)
    /\ UNCHANGED <<today, storeVars, txnVars, loadVars, ctlVars, calcVars,
                   formatInput, formatDetected, unitsButFormat>>

NextFormat == DetectFormat \/ ParseDetected

SpecFormat == InitFormat /\ [][NextFormat]_vars


\* ------------------------------------------------------------------------
\* The block discovery applied to one worksheet
\* ------------------------------------------------------------------------
\* The candidate day columns B, Q and AF
BlockAnchors == <<1, 16, 31>>

\* The rows a candidate column carries the day-anchor label in
BlockAnchorRows == {{}, {3}, {4}}

\* The headers a candidate block carries
BlockHeaderKinds == {"both", "noName", "noId"}

\* The cells of one candidate block at column c: the day-anchor label in the
\* given rows, the In/Out sub-headers, the headers and one data row
BlockPart(c, rows, kind, name, idCell) ==
    LET label(r) == IF r \in rows THEN (<<r, c>> :> Txt("Date/Weekday")) ELSE <<>>
    IN label(3) @@ label(4)
       @@ (<<4, c + 1>> :> Txt("In")) @@ (<<4, c + 3>> :> Txt("Out"))
       @@ (IF kind = "noName" THEN <<>> ELSE NameHeader(c, name))
       @@ (IF kind = "noId" THEN <<>> ELSE IdHeader(c, idCell))
       @@ DataRow(5, c, Num(1), "08:00", "12:00", "", "")

\* A worksheet of 46 columns with the three candidate blocks; with captions
\* its cell A1 holds the text "Date"
BlockSheet(captioned, rows, kinds) ==
    Sheet(TRUE, 5, 45,
        (IF captioned THEN Captions(AprilRange, Txt("2025-05-02")) ELSE <<>>)
        @@ BlockPart(BlockAnchors[1], rows[1], kinds[1], "Gil Ong", Txt("201"))
        @@ BlockPart(BlockAnchors[2], rows[2], kinds[2], "Hana Yu", Num(202))
        @@ BlockPart(BlockAnchors[3], rows[3], kinds[3], "Ian Tan", Txt("203")),
        <<>>)

BlockSheets ==
    {BlockSheet(captioned, <<r1, r2, r3>>, <<k1, k2, k3>>) :
        captioned \in BOOLEAN,
        r1 \in BlockAnchorRows \cup {{3, 4}}, r2 \in BlockAnchorRows,
        r3 \in {{}, {3}},
        k1 \in BlockHeaderKinds, k2 \in {"both", "noName"}, k3 \in {"both", "noId"}}

InitBlocks ==
    /\ InitCommon
    /\ IdleCalc
    /\ IdleFormat /\ IdleSummary /\ IdleScan /\ IdleApp /\ IdleGenerate
    /\ blockSheet \in BlockSheets
    /\ blockPc = "discover" /\ blockColumns = <<>>
    /\ blockSpans = <<>> /\ blockEmployees = <<>>

\* The search for the day-anchor headers and the sort of their columns
DiscoverBlocks ==
    /\ blockPc = "discover"
    /\ LET dayHeaderLocations == DayHeaderLocations(blockSheet)
       IN IF Len(dayHeaderLocations) = 0
          THEN blockPc' = "done" /\ blockColumns' = <<>>
          ELSE /\ blockPc' = "forEach"
               /\ blockColumns' = SortedDayColumnIndices(dayHeaderLocations)
    /\ UNCHANGED <<today, storeVars, txnVars, loadVars, ctlVars, calcVars,
                   blockSheet, blockSpans, blockEmployees, unitsButBlocks>>

\* One iteration of sortedDayColumnIndices.forEach
ProcessBlock ==
    /\ blockPc = "forEach"
    /\ LET index == Len(blockSpans) + 1
           dayColIndex == blockColumns[index]
           next == NextBlockDayColIndex(blockSheet, blockColumns, index)
           captions == SheetCaptions(blockSheet, today)
       IN /\ blockSpans' = Append(blockSpans, <<dayColIndex, next - 1>>)
          /\ blockEmployees' =
                blockEmployees
                \o ParseBlock(blockSheet, dayColIndex, next,
                              MaxDayHeaderRow(DayHeaderLocations(blockSheet)),
                              captions.attendanceDateRange, captions.tablingDate,
                              captions.reportMonth)
          /\ blockPc' = IF index = Len(blockColumns) THEN "done" ELSE "forEach"
    /\ UNCHANGED <<today, storeVars, txnVars, loadVars, ctlVars, calcVars,
                   blockSheet, blockColumns, unitsButBlocks>>

NextBlocks == DiscoverBlocks \/ ProcessBlock

SpecBlocks == InitBlocks /\ [][NextBlocks]_vars


\* ------------------------------------------------------------------------
\* The attendance controller's monthly summary
\* ------------------------------------------------------------------------
SummaryYears == {2000, 2024, 2025, 2100}
SummaryMonths == {[y |-> y, m |-> m] : y \in SummaryYears, m \in 1..12}

\* month.split("-") followed by parseInt of both parts
SummarySplit(month) ==
    CHOOSE ym \in SummaryMonths : MonthText(ym.y, ym.m) = month

\* A record of a timeCard
SummaryRecord(day, amArrival, amDeparture) ==
    [day |-> day, am_arrival |-> amArrival, am_departure |-> amDeparture,
     pm_arrival |-> "", pm_departure |-> "", ot_arrival |-> "", ot_departure |-> ""]

\* dailyRecordMap.get(day) || {} for a day without a record
EmptyRawRecord ==
    [day |-> NULL, am_arrival |-> UNDEF, am_departure |-> UNDEF,
     pm_arrival |-> UNDEF, pm_departure |-> UNDEF, ot_arrival |-> UNDEF,
     ot_departure |-> UNDEF]

\* The controller's calculateDailyMetricsFromTimes: the six times it passes
\* through and its fixed remarks
ControllerDailyMetrics(record) ==
    [am_arrival |-> record.am_arrival, am_departure |-> record.am_departure,
     pm_arrival |-> record.pm_arrival, pm_departure |-> record.pm_departure,
     ot_arrival |-> record.ot_arrival, ot_departure |-> record.ot_departure,
     remarks |-> ""]

\* timeCard.forEach((record) => dailyRecordMap.set(record.day, record))
DailyRecordMap(timeCard) ==
    [d \in {timeCard[i].day : i \in 1..Len(timeCard)} |->
        timeCard[CHOOSE i \in 1..Len(timeCard) :
                    /\ timeCard[i].day = d
                    /\ \A j \in 1..Len(timeCard) : timeCard[j].day = d => j <= i]]

\* A loop over the days that have a record
SummaryDaysOfRecords(dailyRecordMap, daysInMonth) ==
    SortedSeq(DOMAIN dailyRecordMap \cap 1..daysInMonth)

\* for (let day = 1; day <= daysInMonth; day++): the days the loop visits
SummaryDays(dailyRecordMap, daysInMonth) == [i \in 1..daysInMonth |-> i]

\* timeSummary.push({day, dateWeekday, ...dailyMetrics})
SummaryEntry(day, dateWeekday, dailyMetrics) ==
    [day |-> day, dateWeekday |-> dateWeekday,
     am_arrival |-> dailyMetrics.am_arrival,
     am_departure |-> dailyMetrics.am_departure,
     pm_arrival |-> dailyMetrics.pm_arrival,
     pm_departure |-> dailyMetrics.pm_departure,
     ot_arrival |-> dailyMetrics.ot_arrival,
     ot_departure |-> dailyMetrics.ot_departure,
     remarks |-> dailyMetrics.remarks]

calculateEmployeeTimeSummary(employee, month) ==
    IF employee.isNull \/ month = "" THEN [timeSummary |-> <<>>, daysInMonth |-> 0]
    ELSE LET ym == SummarySplit(month)
             daysInMonth == JsDaysInMonth(ym.y, ym.m)
             dailyRecordMap == DailyRecordMap(employee.timeCard)
             days == SummaryDays(dailyRecordMap, daysInMonth)
         IN [timeSummary |->
                [i \in 1..Len(days) |->
                    SummaryEntry(days[i],
                        FormatDateWeekday(ym.y, ym.m, days[i]),
                        ControllerDailyMetrics(
                            IF days[i] \in DOMAIN dailyRecordMap
                            THEN dailyRecordMap[days[i]] ELSE EmptyRawRecord))],
             daysInMonth |-> daysInMonth]

\* The timeCards: empty, two days, every day of a 31-day month, days out of
\* order with one of them twice, and days no month has
SummaryTimeCards ==
    { <<>>,
      <<SummaryRecord(1, "08:00", "12:00"), SummaryRecord(3, "08:15", "12:00")>>,
      [d \in 1..31 |-> SummaryRecord(d, "08:00", "12:00")],
      <<SummaryRecord(5, "08:00", ""), SummaryRecord(2, "08:00", "12:00"),
        SummaryRecord(5, "09:00", "12:00")>>,
      <<SummaryRecord(0, "08:00", "12:00"), SummaryRecord(40, "08:00", "12:00")>> }

SummaryInputs ==
    {[employee |-> e, month |-> mt] :
        e \in {NoEmployee} \cup {[isNull |-> FALSE, timeCard |-> c] : c \in SummaryTimeCards},
        mt \in {""} \cup {MonthText(ym.y, ym.m) : ym \in SummaryMonths}}

InitSummary ==
    /\ InitCommon
    /\ IdleCalc
    /\ IdleFormat /\ IdleBlocks /\ IdleScan /\ IdleApp /\ IdleGenerate
    /\ summaryInput \in SummaryInputs
    /\ summaryOutput = NoSummary

ApplySummary ==
    /\ summaryOutput = NoSummary
    /\ summaryOutput' =
          calculateEmployeeTimeSummary(summaryInput.employee, summaryInput.month)
    /\ UNCHANGED <<today, storeVars, txnVars, loadVars, ctlVars, calcVars,
                   summaryInput, unitsButSummary>>

NextSummary == ApplySummary

SpecSummary == InitSummary /\ [][NextSummary]_vars


\* ------------------------------------------------------------------------
\* The row scan of one block, row by row
\* ------------------------------------------------------------------------
\* The day cells a data row may have: none, an empty text, the number 0, a
\* day of the month, and a number and a text outside every month
ScanDayCells(validDay) ==
    {NoCell, Txt(""), Num(0), Num(validDay), Txt("31"), Txt("00 Sun")}

\* A block at column A whose data rows 5..8 have the given day cells and an
\* arrival time each
ScanSheet(rangeText, dayCells) ==
    Sheet(TRUE, 8, 20,
        Captions(rangeText, Txt("2025-05-02"))
        @@ NameHeader(0, "Jo Lee") @@ IdHeader(0, Txt("301"))
        @@ Anchor(0, "Date/Weekday")
        @@ [rc \in {<<r, 0>> : r \in {q \in 5..8 : dayCells[q - 4] # NoCell}} |->
              dayCells[rc[1] - 4]]
        @@ [rc \in {<<r, 1>> : r \in 5..8} |-> Txt("08:00")],
        <<>>)

ScanInputs ==
    {[sheet |-> ScanSheet(DateRangeText(ym.y, ym.m, 1, 28), <<d1, d2, d3, d4>>),
      reportMonth |-> MonthText(ym.y, ym.m),
      dayColIndex |-> 0, timecardDataStartRow |-> 5] :
        ym \in {[y |-> 2025, m |-> 4], [y |-> 2025, m |-> 2]},
        d1 \in ScanDayCells(1), d2 \in ScanDayCells(2),
        d3 \in ScanDayCells(30), d4 \in ScanDayCells(4)}

InitScan ==
    /\ InitCommon
    /\ IdleCalc
    /\ IdleFormat /\ IdleBlocks /\ IdleSummary /\ IdleApp /\ IdleGenerate
    /\ scanInput \in ScanInputs
    /\ scanPc = "scan"
    /\ scanRow = scanInput.timecardDataStartRow
    /\ scanRecords = <<>>

\* The day cell of the row the scan is at
ScanDayCell == CellAt(scanInput.sheet, scanRow, scanInput.dayColIndex)

\* if (!dateWeekdayRaw && R > timecardDataStartRow) break
ScanBreaks(dayCell, R, timecardDataStartRow) ==
    FalsyCell(dayCell) /\ R > timecardDataStartRow

\* One iteration of the for loop that does not break: the row gives a record
\* when its day is one of the report month
ReadRow ==
    /\ scanPc = "scan"
    /\ scanRow <= scanInput.sheet.er
    /\ ~ScanBreaks(ScanDayCell, scanRow, scanInput.timecardDataStartRow)
    /\ LET day == DayOfCell(ScanDayCell)
           ym == SplitMonth(scanInput.reportMonth)
       IN scanRecords' =
            IF day # NULL /\ day >= 1 /\ day <= JsDaysInMonth(ym.y, ym.m)
            THEN MapSet(scanRecords, day,
                        RowRecord(scanInput.sheet, scanRow, scanInput.dayColIndex))
            ELSE scanRecords
    /\ scanRow' = scanRow + 1
    /\ UNCHANGED <<today, storeVars, txnVars, loadVars, ctlVars, calcVars,
                   scanInput, scanPc, unitsButScan>>

\* The break of the for loop
StopScan ==
    /\ scanPc = "scan"
    /\ scanRow <= scanInput.sheet.er
    /\ ScanBreaks(ScanDayCell, scanRow, scanInput.timecardDataStartRow)
    /\ scanPc' = "done"
    /\ UNCHANGED <<today, storeVars, txnVars, loadVars, ctlVars, calcVars,
                   scanInput, scanRow, scanRecords, unitsButScan>>

\* The for loop ends after the last row of the sheet
EndScan ==
    /\ scanPc = "scan"
    /\ scanRow > scanInput.sheet.er
    /\ scanPc' = "done"
    /\ UNCHANGED <<today, storeVars, txnVars, loadVars, ctlVars, calcVars,
                   scanInput, scanRow, scanRecords, unitsButScan>>

NextScan == ReadRow \/ StopScan \/ EndScan

SpecScan == InitScan /\ [][NextScan]_vars


\* ------------------------------------------------------------------------
\* The desktop application: the Electron main process and the Express server
\* ------------------------------------------------------------------------
MaxCreateWindow == 3

Platforms == {"darwin", "win32", "linux"}

\* The application is launched, on a machine where PORT is free or taken by
\* another program
InitApp ==
    /\ InitCommon
    /\ IdleCalc
    /\ IdleFormat /\ IdleBlocks /\ IdleSummary /\ IdleScan /\ IdleGenerate
    /\ platform \in Platforms
    /\ appState = "launching" /\ mainWindow = 0 /\ loadedWindows = {}
    /\ listenCalls = 0 /\ portOwner \in {"free", "other"}
    /\ pendingCallbacks = {} /\ pendingErrors = {} /\ quitBy = "none"
    /\ IdleRequest

\* let server = null; if (!server) { ... }: the guard of a createWindow call
\* when `n` listen calls were made before it. The variable is local to the
\* call, so it is null at every call.
ServerIsNull(n) == TRUE

\* createWindow(): a new BrowserWindow, and the start of the Express server
createWindow ==
    /\ mainWindow' = listenCalls + 1
    /\ IF ServerIsNull(listenCalls)
       THEN /\ listenCalls' = listenCalls + 1
            /\ IF portOwner = "free"
               THEN /\ portOwner' = "app"
                    /\ pendingCallbacks' = pendingCallbacks \cup {listenCalls + 1}
                    /\ UNCHANGED pendingErrors
               ELSE /\ pendingErrors' = pendingErrors \cup {listenCalls + 1}
                    /\ UNCHANGED <<portOwner, pendingCallbacks>>
       ELSE UNCHANGED <<listenCalls, portOwner, pendingCallbacks, pendingErrors>>

AppFrame == UNCHANGED <<today, storeVars, txnVars, loadVars, ctlVars, calcVars, unitsButApp>>

\* app.whenReady().then(...)
WhenReady ==
    /\ appState = "launching"
    /\ appState' = "ready"
    /\ createWindow
    /\ UNCHANGED <<platform, loadedWindows, quitBy, requestVars>>
    /\ AppFrame

\* The callback of listen: the window of that createWindow call loads the URL
ListenCallback ==
    /\ appState = "ready"
    /\ \E w \in pendingCallbacks :
          /\ pendingCallbacks' = pendingCallbacks \ {w}
          /\ loadedWindows' = IF mainWindow = w THEN loadedWindows \cup {w}
                               ELSE loadedWindows
    /\ UNCHANGED <<platform, appState, mainWindow, listenCalls, portOwner,
                   pendingErrors, quitBy, requestVars>>
    /\ AppFrame

\* server.on('error', ...): app.quit()
ServerError ==
    /\ appState = "ready"
    /\ \E w \in pendingErrors : pendingErrors' = pendingErrors \ {w}
    /\ appState' = "quit" /\ quitBy' = "server error"
    /\ mainWindow' = 0
    /\ portOwner' = IF portOwner = "app" THEN "free" ELSE portOwner
    /\ UNCHANGED <<platform, loadedWindows, listenCalls, pendingCallbacks,
                   requestVars>>
    /\ AppFrame

\* The user closes the window: app.on('window-all-closed', ...)
CloseWindow ==
    /\ appState = "ready" /\ mainWindow # 0
    /\ mainWindow' = 0
    /\ IF platform # "darwin"
       THEN /\ appState' = "quit" /\ quitBy' = "window-all-closed"
            /\ portOwner' = IF portOwner = "app" THEN "free" ELSE portOwner
       ELSE UNCHANGED <<appState, quitBy, portOwner>>
    /\ UNCHANGED <<platform, loadedWindows, listenCalls, pendingCallbacks,
                   pendingErrors, requestVars>>
    /\ AppFrame

\* app.on('activate', ...): the dock icon is clicked (macOS) and no window is
\* open
Activate ==
    /\ appState = "ready" /\ platform = "darwin"
    /\ mainWindow = 0
    /\ listenCalls < MaxCreateWindow
    /\ createWindow
    /\ UNCHANGED <<platform, appState, loadedWindows, quitBy, requestVars>>
    /\ AppFrame

RequestKinds == {"POST /upload without file", "POST /upload with file", "GET /unknown"}

\* A request reaches the listening server
ReceiveRequest(kind) ==
    /\ appState = "ready" /\ portOwner = "app"
    /\ reqStage = "none"
    /\ reqKind' = kind /\ reqStage' = "route"
    /\ resStatus' = 200 /\ errStatusCode' = 0 /\ reqLoads' = 0
    /\ UNCHANGED electronVars
    /\ AppFrame

\* const statusCode = err.statusCode || 500; res.status(statusCode)
StatusOfError(statusCode) == IF statusCode # 0 THEN statusCode ELSE 500

\* The route handler of POST /upload, or the 404 middleware for a path
\* without route
RouteRequest ==
    /\ reqStage = "route"
    /\ CASE reqKind = "POST /upload without file" ->
              /\ resStatus' = 400 /\ errStatusCode' = 0
              /\ reqStage' = "error" /\ UNCHANGED reqLoads
         [] reqKind = "POST /upload with file" ->
              /\ reqLoads' = reqLoads + 1
              /\ resStatus' = 302 /\ reqStage' = "answered"
              /\ UNCHANGED errStatusCode
         [] OTHER ->
              /\ errStatusCode' = 404 /\ reqStage' = "error"
              /\ UNCHANGED <<resStatus, reqLoads>>
    /\ UNCHANGED <<reqKind, electronVars>>
    /\ AppFrame

\* app.use((err, req, res, next) => ...): the status and the error view
ErrorMiddleware ==
    /\ reqStage = "error"
    /\ resStatus' = StatusOfError(errStatusCode)
    /\ reqStage' = "answered"
    /\ UNCHANGED <<reqKind, errStatusCode, reqLoads, electronVars>>
    /\ AppFrame

\* The answer was sent; the server waits for the next request
EndRequest ==
    /\ reqStage = "answered"
    /\ reqKind' = "none" /\ reqStage' = "none" /\ resStatus' = 0
    /\ errStatusCode' = 0 /\ reqLoads' = 0
    /\ UNCHANGED electronVars
    /\ AppFrame

NextApp ==
    \/ WhenReady
    \/ ListenCallback
    \/ ServerError
    \/ CloseWindow
    \/ Activate
    \/ \E kind \in RequestKinds : ReceiveRequest(kind)
    \/ RouteRequest
    \/ ErrorMiddleware
    \/ EndRequest

SpecApp == InitApp /\ [][NextApp]_vars


\* ------------------------------------------------------------------------
\* POST /generate and POST /generate-batch: the undertime shown for a day
\* ------------------------------------------------------------------------
\* parseInt of a text of the model: NaN unless the text is a number
ParseInt(text) ==
    IF \E n \in 0..99 : text = NumStr(n) \/ text = Pad2(n)
    THEN CHOOSE n \in 0..99 : text = NumStr(n) \/ text = Pad2(n)
    ELSE NaN

isWeekendLabel(val) == val = "Saturday" \/ val = "Sunday"

\* The final formatting of displayUndertimeHours (the number as its text)
DisplayHours(val) ==
    IF isWeekendLabel(val) THEN val
    ELSE IF val = "" \/ ParseInt(val) = NaN THEN ""
    ELSE NumStr(ParseInt(val))

\* The final formatting of displayUndertimeMinutes
DisplayMinutes(val) ==
    IF isWeekendLabel(val) THEN val
    ELSE IF val = "" \/ ParseInt(val) = NaN THEN ""
    ELSE Pad2(ParseInt(val))

\* new Date(year, monthNum - 1, day).getDay() inside the calculator when the
\* three arguments are time texts: Number("") is 0 and gives 30 November
\* 1899, Number of a text with a colon is NaN and gives an Invalid Date
DayOfWeekOfTexts(year, monthNum, day) ==
    IF year = "" /\ monthNum = "" /\ day = ""
    THEN JsGetDay(1899, 11, 30)
    ELSE NaN

\* calculateDailyMetricsFromTimes(am_arrival, am_departure, pm_arrival,
\* pm_departure, ot_arrival, ot_departure): the calculator takes its first
\* argument as the record, and a text has none of the record's properties;
\* the next three arguments are its year, monthNum and day
RecalculatedMetrics(amArrival, amDeparture, pmArrival, pmDeparture) ==
    TimesFromTimes(NoRecord, DayOfWeekOfTexts(amDeparture, pmArrival, pmDeparture),
                   NULL, NULL, NULL, NULL, NULL, NULL)

\* The undertime pair a handler shows for a day
DisplayUndertime(dayOfWeek, submitted, recalculatedMetrics) ==
    LET chosen ==
            IF dayOfWeek = 0 \/ dayOfWeek = 6 THEN submitted
            ELSE IF submitted[1] = "" \/ submitted[2] = ""
            THEN <<recalculatedMetrics.undertime_hours,
                   recalculatedMetrics.undertime_minutes>>
            ELSE submitted
    IN <<DisplayHours(chosen[1]), DisplayMinutes(chosen[2])>>

\* The undertime a request carries for a day, or the stored record has
GenerateUndertimes ==
    {<<"", "">>, <<"1", "30">>, <<"", "30">>, <<UNDEF, UNDEF>>,
     <<"Saturday", "Saturday">>}

\* A Friday, a Saturday and a Monday, with the times and the undertime of the
\* day in the request body (POST /generate) or in the stored record (POST
\* /generate-batch)
GenerateInputs ==
    {[route |-> rt, year |-> 2025, monthNum |-> 4, day |-> d,
      am_arrival |-> ai, am_departure |-> ao, pm_arrival |-> pi,
      pm_departure |-> po, undertime |-> ut] :
        rt \in {"/generate", "/generate-batch"}, d \in {4, 5, 7},
        ai \in {"", "08:00"}, ao \in {"", "12:00"}, pi \in {"", "13:00"},
        po \in {"", "16:00", "17:00"}, ut \in GenerateUndertimes}

InitGenerate ==
    /\ InitCommon
    /\ IdleCalc
    /\ IdleFormat /\ IdleBlocks /\ IdleSummary /\ IdleScan /\ IdleApp
    /\ generateInput \in GenerateInputs
    /\ generateShown = NoShown

\* The body of the loop over the days of the month, for one day
ShowDay(route) ==
    /\ generateShown = NoShown
    /\ generateInput.route = route
    /\ generateShown' =
          DisplayUndertime(
              JsGetDay(generateInput.year, generateInput.monthNum, generateInput.day),
              generateInput.undertime,
              RecalculatedMetrics(generateInput.am_arrival, generateInput.am_departure,
                                  generateInput.pm_arrival, generateInput.pm_departure))
    /\ UNCHANGED <<today, storeVars, txnVars, loadVars, ctlVars, calcVars,
                   generateInput, unitsButGenerate>>

Generate == ShowDay("/generate")

GenerateBatch == ShowDay("/generate-batch")

NextGenerate == Generate \/ GenerateBatch

SpecGenerate == InitGenerate /\ [][NextGenerate]_vars


\* ------------------------------------------------------------------------
\* Properties of a file load
\* ------------------------------------------------------------------------
\* The last load got as far as the parsed employees
LoadParsed == lastLoad.outcome \in {"running", "stored", "persistFailed"}

\* The day records of a table without their row ids
DayRecords(rows) == {row.columns : row \in rows}

\* The two tables are the ones the last load began with
TablesAsBefore ==
    employees = before.employees /\ time_records = before.time_records

TimeCardCoversMonth(timeCard, ym) ==
    /\ Len(timeCard) = JsDaysInMonth(ym.y, ym.m)
    /\ \A d \in 1..Len(timeCard) : timeCard[d].day = d

\* C1: every employee a file load produces, by the block-format parser or by
\* the simple-format parser, has a timeCard of exactly daysInMonth(month)
\* entries whose day numbers are 1, 2, ..., daysInMonth(month) in that order.
C1_TimeCardCoversMonth ==
    \A i \in 1..Len(Parsed) :
        TimeCardCoversMonth(Parsed[i].timeCard, SplitMonth(Parsed[i].month))

\* Two successful loads of the same file, one right after the other
SameFileTwice ==
    /\ pc = "idle"
    /\ lastLoad.outcome = "stored" /\ prevLoad.outcome = "stored"
    /\ lastLoad.file = prevLoad.file

\* The second of two loads left the store as the first had left it
StoreAsAfterFirstLoad ==
    /\ employees = before.employees
    /\ seqEmployees = before.seqEmployees
    /\ DayRecords(time_records) = DayRecords(before.time_records)

\* C2 as stated: loading the same unmodified file twice is idempotent, the
\* store after the second load holds the same employee rows (count, fields,
\* ids) and the same day records as after the first load.
C2_SameFileTwiceIsIdempotent == SameFileTwice => StoreAsAfterFirstLoad

\* Both loads read the same employees from the file: no sheet of the file
\* took its month from a calendar that changed between the two loads
SameReading ==
    ParseTable[lastLoad.file][lastLoad.today].employees
        = ParseTable[prevLoad.file][prevLoad.today].employees

\* C2 amended: loading the same unmodified file twice is idempotent whenever
\* both loads read the same employees from it, that is, unless a sheet
\* without attendance date range takes its month from a calendar month that
\* changed between the two loads.
C2_SameReadingIsIdempotent ==
    (SameFileTwice /\ SameReading) => StoreAsAfterFirstLoad

\* The same file was stored twice, in two different calendar months, and the
\* second load found its employees and day records already stored
C2_Witness ==
    /\ SameFileTwice /\ SameReading
    /\ lastLoad.today # prevLoad.today
    /\ Len(Parsed) > 0
    /\ time_records # {}

\* The positions of the employees of a key in the parsed list
WithKey(list, employee) ==
    {i \in 1..Len(list) : /\ list[i].userId = employee.userId
                          /\ list[i].name = employee.name
                          /\ list[i].month = employee.month}

\* The day records the load writes for an employee: the entries with a time
\* entry of the last block of the employee's key
WrittenFor(list, employee, id) ==
    LET last == CHOOSE i \in WithKey(list, employee) :
                    \A j \in WithKey(list, employee) : j <= i
    IN {RecordColumns(id, list[last].timeCard[d]) :
            d \in {x \in 1..Len(list[last].timeCard) :
                     RecordHasData(list[last].timeCard[x])}}

StoredFor(id) == {row \in time_records : row.columns.employee_id = id}

\* C3: after a successful load containing an employee of key (userId, name,
\* month), the day records stored for that employee are exactly the ones that
\* load wrote: each was inserted by this load, and none of an earlier load
\* remains, even for days the new file leaves empty.
C3_DayRecordsAreThoseOfTheLoad ==
    (pc = "idle" /\ lastLoad.outcome = "stored") =>
        \A i \in 1..Len(Parsed) :
            /\ Cardinality(ExistingEmployee(employees, Parsed[i])) = 1
            /\ \A row \in ExistingEmployee(employees, Parsed[i]) :
                  /\ \A rec \in StoredFor(row.id) : rec.id > before.seqTimeRecords
                  /\ DayRecords(StoredFor(row.id))
                        = WrittenFor(Parsed, Parsed[i], row.id)

\* A successful load replaced an employee whose earlier day record is for a
\* day the new file leaves empty
C3_Witness ==
    /\ pc = "idle" /\ lastLoad.outcome = "stored"
    /\ \E i \in 1..Len(Parsed) :
         \E row \in ExistingEmployee(employees, Parsed[i]) :
            \E old \in before.time_records :
               /\ old.columns.employee_id = row.id
               /\ \A rec \in StoredFor(row.id) : rec.columns.day # old.columns.day

\* C4: the persistence step is all-or-nothing: when a statement fails partway
\* through the batch, the employees and time_records tables are left exactly
\* as they were before the load.
C4_FailedBatchLeavesTables ==
    (pc = "idle" /\ lastLoad.outcome = "persistFailed") => TablesAsBefore

\* An INSERT of a day record failed after the transaction had replaced rows
\* of a store that held day records
C4_Witness ==
    /\ pc = "idle" /\ lastLoad.outcome = "persistFailed"
    /\ failedAt.step = "insert" /\ failedAt.pos > 1
    /\ before.time_records # {}

\* The file of the last load cannot be read or parsed: reading it throws, it
\* has no sheet, or one of the worksheets the block-format loop visits has no
\* range for decode_range
CannotBeReadOrParsed(workbook) ==
    \/ ~workbook.readable
    \/ Len(workbook.sheets) = 0
    \/ /\ ~isSimpleBiometricFormat(workbook.sheets[1])
       /\ \E i \in 1..Len(workbook.sheets) :
             i <= SHEET_LIMIT /\ ~workbook.sheets[i].hasRef

\* C5: when the document cannot be read or parsed, the load commits nothing:
\* the employees and time_records tables after the load equal those before.
C5_UnreadableFileCommitsNothing ==
    (pc = "idle" /\ lastLoad.file # 0
     /\ CannotBeReadOrParsed(Files[lastLoad.file])) => TablesAsBefore

\* The files with a worksheet the block-format parser reads employees from
FilesWithEmployees ==
    {f \in FileIds :
        \E i \in 1..Len(Files[f].sheets) :
            /\ Files[f].sheets[i].hasRef
            /\ Len(parseSingleEmployeeAttendanceSheet(Files[f].sheets[i],
                                                      StartMonth)) > 0}

\* A file with a worksheet that makes the parser throw, and with employees
\* on other worksheets, was loaded into a store that held data
C5_Witness ==
    /\ pc = "idle" /\ lastLoad.file \in FilesWithEmployees
    /\ lastLoad.outcome = "parseFailed"
    /\ employees # {} /\ time_records # {}

\* What the four readers of the controller return is read from biometricData:
\* the data itself, and its employees as (userId, name) pairs
EmployeesOf(data) ==
    {[userId |-> data[key].userId, name |-> data[key].name] : key \in DOMAIN data}

C7_PersistenceFailureIsSurfaced ==
    (pc = "idle" /\ lastLoad.outcome = "persistFailed") =>
        <<loadReturn, response>>
            # <<LoadReturns("stored"), UploadResponds(LoadReturns("stored"))>>

\* The columns of the day-anchor headers of a worksheet
AnchorColumns(sheet) ==
    {rc[2] : rc \in {x \in DOMAIN sheet.cells :
                        /\ sheet.cells[x].t = "s"
                        /\ DayRegexTest(ToLower(Trim(sheet.cells[x].s)))}}

\* The column is in the block that starts at the anchor column dc
InBlock(anchors, dc, c) == c >= dc /\ \A a \in anchors : a <= dc \/ a > c

\* The texts right of the caption cells of a label in a block
CaptionedTexts(sheet, anchors, dc, label) ==
    {CellText(CellAt(sheet, rc[1], rc[2] + 1)) :
        rc \in {x \in DOMAIN sheet.cells :
                  /\ sheet.cells[x].t = "s"
                  /\ ToLower(Trim(sheet.cells[x].s)) = label
                  /\ x[1] <= HEADER_SEARCH_END_ROW
                  /\ InBlock(anchors, dc, x[2])}}

\* The value of a set of captioned texts, "" when the block has no caption
\* of the label (no block of the worksheets has two captions of one label)
OneText(texts) == IF texts = {} THEN "" ELSE CHOOSE text \in texts : TRUE

\* The header of a block: the values of its three captions
BlockHeader(sheet, anchors, dc) ==
    [userId |-> OneText(CaptionedTexts(sheet, anchors, dc, "user id")),
     name |-> OneText(CaptionedTexts(sheet, anchors, dc, "name")),
     department |-> OneText(CaptionedTexts(sheet, anchors, dc, "dept."))]

\* The block has a Name value and a User ID value
HeaderIsComplete(header) == header.name # "" /\ header.userId # ""

\* The headers of the blocks of a worksheet from left to right
HeadersOfBlocks(sheet, anchors, columns) ==
    [k \in 1..Len(columns) |-> BlockHeader(sheet, anchors, columns[k])]

\* The headers of the blocks of a worksheet
HeadersOfSheet(sheet) ==
    HeadersOfBlocks(sheet, AnchorColumns(sheet), SortedSeq(AnchorColumns(sheet)))

\* The complete headers of a sequence, in its order
CompleteOf(headers) == SelectSeq(headers, HeaderIsComplete)

RECURSIVE CompleteBlocksOfSheets(_, _)
CompleteBlocksOfSheets(sheets, i) ==
    IF i > Len(sheets) THEN <<>>
    ELSE CompleteOf(HeadersOfSheet(sheets[i]))
         \o CompleteBlocksOfSheets(sheets, i + 1)

\* The block-format workbooks whose worksheets can all be parsed
BlockFiles ==
    {f \in FileIds : /\ ~CannotBeReadOrParsed(Files[f])
                     /\ ~isSimpleBiometricFormat(Files[f].sheets[1])}

CompleteBlocksOfFile ==
    [f \in BlockFiles |-> CompleteBlocksOfSheets(Files[f].sheets, 1)]

\* The files with a block that lacks a Name value or a User ID value next to
\* complete blocks, one of them without Department caption
SheetHasMalformedBlock(headers) ==
    /\ \E k \in 1..Len(headers) : ~HeaderIsComplete(headers[k])
    /\ \E k \in 1..Len(headers) :
          HeaderIsComplete(headers[k]) /\ headers[k].department = ""

FilesWithMalformedBlock ==
    {f \in BlockFiles :
        \E i \in 1..Len(Files[f].sheets) :
            SheetHasMalformedBlock(HeadersOfSheet(Files[f].sheets[i]))}

HeaderOf(employee) ==
    [userId |-> employee.userId, name |-> employee.name,
     department |-> employee.department]

\* C8: in a worksheet with several blocks, a block whose Name value or User
\* ID value is missing or empty yields no employee and no error, every other
\* block of the worksheet yields its employee, and a block without
\* Department caption is kept with the empty text as department.
C8_MalformedBlockIsSkipped ==
    (LoadParsed /\ lastLoad.file \in BlockFiles) =>
        [i \in 1..Len(Parsed) |-> HeaderOf(Parsed[i])]
            = CompleteBlocksOfFile[lastLoad.file]

\* A workbook with a malformed block next to complete ones was loaded and
\* its complete blocks were stored
C8_Witness ==
    /\ pc = "idle" /\ lastLoad.outcome = "stored"
    /\ lastLoad.file \in FilesWithMalformedBlock
    /\ Len(Parsed) > 0

\* The block-format workbooks that can be read and have a worksheet, among
\* the first 20, without day-anchor header
FilesWithAnchorlessSheet ==
    {f \in FileIds :
        /\ Files[f].readable /\ Len(Files[f].sheets) > 0
        /\ ~isSimpleBiometricFormat(Files[f].sheets[1])
        /\ \E i \in 1..Len(Files[f].sheets) :
              i <= SHEET_LIMIT /\ AnchorColumns(Files[f].sheets[i]) = {}}

\* The complete blocks of the worksheets of a file that have a range
CompleteBlocksOfOtherSheets ==
    [f \in FilesWithAnchorlessSheet |->
        CompleteBlocksOfSheets(Files[f].sheets, 1)]

\* C9: in a block-format load, a worksheet without day-anchor header
\* contributes no employee and does not stop the load: the employees of all
\* other worksheets of the file are still parsed and persisted.
C9_AnchorlessSheetDoesNotStopLoad ==
    (pc = "idle" /\ lastLoad.file \in FilesWithAnchorlessSheet
     /\ lastLoad.outcome # "persistFailed") =>
        \A k \in 1..Len(CompleteBlocksOfOtherSheets[lastLoad.file]) :
            \E row \in employees :
                /\ row.userId = CompleteBlocksOfOtherSheets[lastLoad.file][k].userId
                /\ row.name = CompleteBlocksOfOtherSheets[lastLoad.file][k].name

\* The record of the day has no time entry
NoTimeEntries(record) ==
    /\ record.am_arrival = "" /\ record.am_departure = ""
    /\ record.pm_arrival = "" /\ record.pm_departure = ""
    /\ record.ot_arrival = "" /\ record.ot_departure = ""

WeekdayName(dayOfWeek) ==
    IF dayOfWeek = 6 THEN "Saturday" ELSE IF dayOfWeek = 0 THEN "Sunday" ELSE ""

\* The undertime of the metrics is the name of the day of the input
HasWeekendMarker(metrics) ==
    LET weekday == WeekdayName(JsGetDay(calcInput.year, calcInput.monthNum,
                                        calcInput.day))
    IN metrics.undertime_hours = weekday /\ metrics.undertime_minutes = weekday

\* C10: for a Saturday or Sunday whose raw record has no time entries, the
\* metrics of the block-format calculator and of the simple-format calculator
\* alike have undertime_hours and undertime_minutes equal to the weekday
\* name, never a number and never the empty text.
C10_WeekendMarker ==
    (/\ JsGetDay(calcInput.year, calcInput.monthNum, calcInput.day) \in {0, 6}
     /\ NoTimeEntries(calcInput.record)) =>
        /\ calcFromTimes # NoCalc => HasWeekendMarker(calcFromTimes)
        /\ calcForSimple # NoCalc => HasWeekendMarker(calcForSimple)

\* The results the two calculators have returned for the input
CalcResults == {calcFromTimes, calcForSimple} \ {NoCalc}

\* C11: for the same raw record and the same date, the block-format
\* calculator and the simple-format calculator return equal metrics.
C11_CalculatorsAgree ==
    (calcFromTimes # NoCalc /\ calcForSimple # NoCalc) =>
        calcFromTimes = calcForSimple

\* The metrics carry the values the sheet supplied for late, overtime and
\* total hours, and the hours and minutes of a supplied undertime H:MM
SuppliedIsKept(record, metrics) ==
    /\ Truthy(record.late_excel) => metrics.late = record.late_excel
    /\ Truthy(record.overtime_hours_excel) =>
           metrics.overtime = record.overtime_hours_excel
    /\ Truthy(record.total_hours_excel) =>
           metrics.total_hours = record.total_hours_excel
    /\ (Truthy(record.undertime_excel) /\ UtMatch(record.undertime_excel) # <<>>) =>
           /\ metrics.undertime_hours = NumStr(UtMatch(record.undertime_excel)[1])
           /\ metrics.undertime_minutes = NumStr(UtMatch(record.undertime_excel)[2])

\* C12: a late, undertime, overtime or total-hours value supplied by the
\* sheet is the value of that field in the metrics; it is never replaced by
\* a calculated or emptied value.
C12_SuppliedValueIsOutput ==
    \A metrics \in CalcResults : SuppliedIsKept(calcInput.record, metrics)

\* The metrics fields other than the one a supplied text belongs to
OtherFields(metrics, field) ==
    [f \in {"total_hours", "late", "early_out", "overtime", "remarks",
            "undertime"} \ {field} |->
        IF f = "undertime"
        THEN <<metrics.undertime_hours, metrics.undertime_minutes>>
        ELSE metrics[f]]

SuppliedField ==
    [late_excel |-> "late", undertime_excel |-> "undertime",
     overtime_hours_excel |-> "overtime", total_hours_excel |-> "total_hours"]

\* Supplying the text changes no field of the metrics but its own
SuppliedOnlySetsOwn(record, supplied) ==
    Truthy(record[supplied]) =>
        LET bare == [record EXCEPT ![supplied] = UNDEF]
            year == calcInput.year
            monthNum == calcInput.monthNum
            day == calcInput.day
        IN /\ calcFromTimes # NoCalc =>
                OtherFields(calcFromTimes, SuppliedField[supplied])
                  = OtherFields(calculateDailyMetricsFromTimes(bare, year,
                                    monthNum, day), SuppliedField[supplied])
           /\ calcForSimple # NoCalc =>
                OtherFields(calcForSimple, SuppliedField[supplied])
                  = OtherFields(calculateDailyMetricsFromTimesForSimpleParser(
                                    bare, year, monthNum, day),
                                SuppliedField[supplied])

\* C13: a value supplied by the sheet for late, undertime, overtime or
\* total hours affects that field only: every other field of the metrics,
\* the remarks included, is what it is without the supplied value.
C13_SuppliedValueAffectsOwnFieldOnly ==
    \A supplied \in DOMAIN SuppliedField :
        SuppliedOnlySetsOwn(calcInput.record, supplied)

RemarkLabels == {"Late", "Early Out", "Overtime"}

\* The remarks text that carries exactly the given labels
RemarksOf(labels) ==
    LET late == IF "Late" \in labels THEN "Late" ELSE ""
        early == IF "Early Out" \in labels
                 THEN (IF late = "" THEN "" ELSE late \o ", ") \o "Early Out"
                 ELSE late
    IN IF "Overtime" \in labels
       THEN (IF early = "" THEN "" ELSE early \o ", ") \o "Overtime"
       ELSE early

RemarksContain(remarks, label) ==
    \E labels \in SUBSET RemarkLabels :
        label \in labels /\ remarks = RemarksOf(labels)

RemarksLack(remarks, label) ==
    \E labels \in SUBSET (RemarkLabels \ {label}) : remarks = RemarksOf(labels)

\* A number of minutes as "{H}h {MM}m", MM of two digits in 00..59
DurationText(minutes) ==
    NumStr(minutes \div 60) \o "h "
      \o (IF minutes % 60 < 10 THEN "0" ELSE "") \o NumStr(minutes % 60) \o "m"

\* A number of seconds as a number of minutes in the form "{H}h {MM}m": the
\* whole minutes, or the nearest minute
DurationTexts(seconds) ==
    {DurationText(seconds \div 60), DurationText((seconds + 30) \div 60)}

\* The second of the day a time field names, NaN when the field is absent
\* or does not parse
SecondOfField(text) == IF Truthy(text) THEN ParseTime(text) ELSE NaN

LateRule(record, metrics) ==
    Falsy(record.late_excel) =>
        LET arrival == SecondOfField(record.am_arrival)
        IN IF arrival # NaN /\ arrival > 8 * 3600
           THEN /\ metrics.late \in DurationTexts(arrival - 8 * 3600)
                /\ RemarksContain(metrics.remarks, "Late")
           ELSE /\ metrics.late = ""
                /\ RemarksLack(metrics.remarks, "Late")

\* C14: with no late value supplied by the sheet, an AM arrival that parses
\* to a time later than 08:00 gives late = the minutes past 08:00 as
\* "{H}h {MM}m" with MM in 00..59 and remarks containing "Late"; an absent or
\* unparseable arrival, or one not later than 08:00, gives late = "" and
\* remarks without "Late". Both calculators.
C14_LateRule == \A metrics \in CalcResults : LateRule(calcInput.record, metrics)

EarlyOutRule(record, metrics) ==
    LET departure == SecondOfField(record.pm_departure)
    IN IF departure # NaN /\ departure < 17 * 3600
       THEN /\ metrics.early_out \in DurationTexts(17 * 3600 - departure)
            /\ RemarksContain(metrics.remarks, "Early Out")
       ELSE /\ metrics.early_out = ""
            /\ RemarksLack(metrics.remarks, "Early Out")

\* C15: a PM departure that parses to a time earlier than 17:00 gives
\* early_out = the minutes before 17:00 as "{H}h {MM}m" and remarks
\* containing "Early Out"; an absent or unparseable departure, or one at or
\* after 17:00, gives early_out = "" and remarks without "Early Out". Both
\* calculators.
C15_EarlyOutRule ==
    \A metrics \in CalcResults : EarlyOutRule(calcInput.record, metrics)

\* The duration of a pair of time fields in seconds: 0 unless both ends
\* parse and out is later than in
PairOfFields(inText, outText) ==
    LET inSecond == SecondOfField(inText)
        outSecond == SecondOfField(outText)
    IN IF inSecond # NaN /\ outSecond # NaN /\ outSecond > inSecond
       THEN outSecond - inSecond ELSE 0

\* W: the AM, PM and OT pair durations together, in seconds
WorkedSeconds(record) ==
    PairOfFields(record.am_arrival, record.am_departure)
      + PairOfFields(record.pm_arrival, record.pm_departure)
      + PairOfFields(record.ot_arrival, record.ot_departure)

OvertimeRule(record, metrics) ==
    Falsy(record.overtime_hours_excel) =>
        IF WorkedSeconds(record) > 8 * 3600
        THEN /\ metrics.overtime \in DurationTexts(WorkedSeconds(record) - 8 * 3600)
             /\ RemarksContain(metrics.remarks, "Overtime")
        ELSE /\ metrics.overtime = ""
             /\ RemarksLack(metrics.remarks, "Overtime")

\* C16: with no overtime value supplied by the sheet, and W the AM, PM and OT
\* pair durations together: when W is more than 8 hours, overtime is W - 8h
\* as "{H}h {MM}m" with MM in 00..59 and remarks contains "Overtime"; when W
\* is at most 8 hours, exactly 8 included, overtime is "" and remarks does
\* not contain "Overtime". Both calculators.
C16_OvertimeRule ==
    \A metrics \in CalcResults : OvertimeRule(calcInput.record, metrics)

\* The record of the overtime example: AM 08:00-12:00, PM from 13:00, no OT
\* pair, no overtime supplied by the sheet
IsOvertimeExample(record, departure) ==
    /\ record.am_arrival = "08:00" /\ record.am_departure = "12:00"
    /\ record.pm_arrival = "13:00" /\ record.pm_departure = departure
    /\ record.ot_arrival = "" /\ record.ot_departure = ""
    /\ Falsy(record.overtime_hours_excel)

\* C17 as stated: the record with AM 08:00-12:00 and PM 13:00-18:00 yields
\* overtime = "", and with PM departure 18:30 it yields overtime = "0h 30m".
C17_SpecOvertimeExample ==
    \A metrics \in CalcResults :
        /\ IsOvertimeExample(calcInput.record, "18:00") => metrics.overtime = ""
        /\ IsOvertimeExample(calcInput.record, "18:30") =>
               metrics.overtime = "0h 30m"

\* C17: the record with AM 08:00-12:00 and PM 13:00-17:00 (8 hours worked)
\* yields overtime = "" and no "Overtime" remark; with PM departure 18:00
\* (9 hours) it yields overtime = "1h 00m", with PM departure 18:30
\* overtime = "1h 30m", both with the remark.
C17_OvertimeExample ==
    \A metrics \in CalcResults :
        /\ IsOvertimeExample(calcInput.record, "17:00") =>
               /\ metrics.overtime = ""
               /\ RemarksLack(metrics.remarks, "Overtime")
        /\ IsOvertimeExample(calcInput.record, "18:00") =>
               /\ metrics.overtime = "1h 00m"
               /\ RemarksContain(metrics.remarks, "Overtime")
        /\ IsOvertimeExample(calcInput.record, "18:30") =>
               /\ metrics.overtime = "1h 30m"
               /\ RemarksContain(metrics.remarks, "Overtime")

\* The example with PM departure 18:30 has gone through both calculators,
\* and both returned one hour and a half of overtime
C17_Witness ==
    /\ IsOvertimeExample(calcInput.record, "18:30")
    /\ calcFromTimes # NoCalc /\ calcForSimple # NoCalc
    /\ calcFromTimes.overtime = "1h 30m" /\ calcForSimple.overtime = "1h 30m"

TotalHoursRule(record, metrics) ==
    Falsy(record.total_hours_excel) =>
        IF ~NoTimeEntries([f \in DOMAIN record |->
                              IF Falsy(record[f]) THEN "" ELSE record[f]])
           /\ WorkedSeconds(record) > 0
        THEN metrics.total_hours \in DurationTexts(WorkedSeconds(record))
        ELSE metrics.total_hours = ""

\* C18: with no total-hours value supplied by the sheet, total_hours is the
\* AM, PM and OT pair durations together as "{H}h {MM}m" when one of the six
\* time fields is non-empty and that sum is positive, and "" in every other
\* case. Both calculators.
C18_TotalHoursRule ==
    \A metrics \in CalcResults : TotalHoursRule(calcInput.record, metrics)

\* The texts of the numbers an undertime field can hold
NumberTexts == {NumStr(n) : n \in 0..99}

\* M seconds of shortfall as the pair of texts of floor(M / 60 minutes) and
\* of the minutes left, the minutes taken whole or to the nearest
ShortfallPairs(shortfall) ==
    {<<NumStr(minutes \div 60), NumStr(minutes % 60)>> :
        minutes \in {shortfall \div 60, (shortfall + 30) \div 60}}

UndertimeRule(record, dayOfWeek, metrics) ==
    LET worked == PairOfFields(record.am_arrival, record.am_departure)
                    + PairOfFields(record.pm_arrival, record.pm_departure)
        shortfall == IF worked < 480 * 60 THEN 480 * 60 - worked ELSE 0
        undertime == <<metrics.undertime_hours, metrics.undertime_minutes>>
    IN Falsy(record.undertime_excel) =>
         IF dayOfWeek \in 1..5
         THEN IF HasActualWorkEntries(record) /\ shortfall > 0
              THEN undertime \in ShortfallPairs(shortfall)
              ELSE undertime = <<"", "">>
         ELSE /\ metrics.undertime_hours \notin NumberTexts
              /\ metrics.undertime_minutes \notin NumberTexts

\* C19: undertime is computed only on weekdays and only when the sheet
\* supplies none: on a weekday with a non-empty time field and
\* M = max(480 - (AM minutes + PM minutes), 0), undertime_hours is
\* floor(M / 60) and undertime_minutes is M mod 60 as texts when M > 0, and
\* both are "" when M = 0; on a weekday without time fields both are "";
\* on a Saturday or Sunday neither is a computed number. Both calculators.
C19_UndertimeRule ==
    \A metrics \in CalcResults :
        UndertimeRule(calcInput.record,
                      JsGetDay(calcInput.year, calcInput.monthNum, calcInput.day),
                      metrics)

TimeFields ==
    {"am_arrival", "am_departure", "pm_arrival", "pm_departure", "ot_arrival",
     "ot_departure"}

\* The metrics derived from the time fields
DerivedMetrics(metrics) ==
    <<metrics.total_hours, metrics.late, metrics.early_out, metrics.overtime,
      metrics.remarks, metrics.undertime_hours, metrics.undertime_minutes>>

\* The time field holds a text that is no time of day
IsUnparseable(record, field) ==
    Truthy(record[field]) /\ ParseTime(record[field]) = NaN

\* The metrics are those of the record with the field emptied, and the day
\* is written to time_records in both cases or in neither
UnparseableIsAbsent(record, field) ==
    LET emptied == [record EXCEPT ![field] = ""]
        year == calcInput.year
        monthNum == calcInput.monthNum
        day == calcInput.day
    IN /\ calcFromTimes # NoCalc =>
            /\ DerivedMetrics(calcFromTimes)
                 = DerivedMetrics(calculateDailyMetricsFromTimes(emptied, year,
                                      monthNum, day))
            /\ RecordHasData(calcFromTimes)
                 <=> RecordHasData(calculateDailyMetricsFromTimes(emptied, year,
                                       monthNum, day))
       /\ calcForSimple # NoCalc =>
            DerivedMetrics(calcForSimple)
              = DerivedMetrics(calculateDailyMetricsFromTimesForSimpleParser(
                                   emptied, year, monthNum, day))

\* C20: a time field whose text does not parse as a time of day is treated
\* as absent: with the field replaced by the empty text every derived
\* metric (total_hours, late, early_out, overtime, remarks, undertime_hours,
\* undertime_minutes) is the same, and so is whether the day is written as a
\* day record.
C20_UnparseableTimeIsAbsent ==
    \A field \in TimeFields :
        IsUnparseable(calcInput.record, field) =>
            UnparseableIsAbsent(calcInput.record, field)

\* The header labels of the simple format, each with the header texts that
\* are the label once trimmed and lower-cased
LabelSpellings ==
    { {"Name", "NAME", " Name ", "name"}, {"Date", "DATE", "date"},
      {"Timetable", "TIMETABLE", "timetable"},
      {"Clock In", "clock in", "CLOCK IN"},
      {"Clock Out", "Clock Out ", "clock out"} }

\* Each of the five labels stands in a cell of A1..Z1
HasEveryLabel(sheet) ==
    \A spellings \in LabelSpellings :
        \E c \in 0..25 :
            /\ <<0, c>> \in DOMAIN sheet.cells
            /\ sheet.cells[<<0, c>>].t = "s"
            /\ sheet.cells[<<0, c>>].s \in spellings

\* C21: the first worksheet is classified simple exactly when each of the
\* labels name, date, timetable, clock in, clock out occurs, trimmed and
\* lower-cased and in any column order, among A1..Z1; the load then runs the
\* simple parser on that worksheet in that case and the block parser over the
\* worksheets otherwise.
C21_FormatDetection ==
    /\ formatDetected # "none" =>
           (formatDetected = "simple" <=> HasEveryLabel(formatInput.sheets[1]))
    /\ formatParsed # NoParse =>
           /\ formatParsed.outcome = "parsed"
           /\ formatParsed.employees =
                  IF HasEveryLabel(formatInput.sheets[1])
                  THEN parseSimpleBiometric(formatInput.sheets[1])
                  ELSE ParseSheets(formatInput.sheets, 1, today)

\* A header row in the order E..A, its last label padded with a blank, was
\* classified simple and the simple parser read the clock event
C21_Witness ==
    /\ formatDetected = "simple"
    /\ CellAt(formatInput.sheets[1], 0, 4) = Txt("Name")
    /\ CellAt(formatInput.sheets[1], 0, 0) = Txt("Clock Out ")
    /\ formatParsed # NoParse
    /\ Len(formatParsed.employees) = 1
    /\ formatParsed.employees[1].name = "Fe Uy"

\* A header row without one of the labels was classified block and the
\* block parser read the second worksheet
C21_WitnessBlock ==
    /\ formatDetected = "block"
    /\ formatParsed # NoParse
    /\ Len(formatParsed.employees) = 1
    /\ formatParsed.employees[1].name = "Eli Go"

\* A header label stands in columns lo..hi with a value in the cell after it
SpanHasValue(sheet, label, lo, hi) ==
    \E r \in 0..sheet.er, c \in lo..hi :
        /\ CellAt(sheet, r, c) = Txt(label)
        /\ CellText(CellAt(sheet, r, c + 1)) # ""

\* The spans the claim gives the anchor columns: from each column to the
\* column before the next one, the last to the last column of the sheet
ClaimedSpans(sheet) ==
    LET cols == SortedSeq(AnchorColumns(sheet))
    IN [i \in 1..Len(cols) |->
          <<cols[i], IF i < Len(cols) THEN cols[i + 1] - 1 ELSE sheet.ec>>]

\* C22: a worksheet whose day-anchor label occurs in k distinct columns
\* c1 < ... < ck is processed as exactly k blocks in ascending column order,
\* block i searching its headers in columns ci .. c(i+1) - 1 and the last
\* block in ck .. the last column; the spans are pairwise disjoint, and when
\* every block has a name and a user id exactly k employees result.
C22_BlockPartition ==
    LET spans == ClaimedSpans(blockSheet)
        k == Len(spans)
    IN /\ \A i \in 1..Len(blockSpans) : i <= k /\ blockSpans[i] = spans[i]
       /\ \A i, j \in 1..Len(blockSpans) :
            i < j => blockSpans[i][2] < blockSpans[j][1]
       /\ blockPc = "done" =>
            /\ Len(blockSpans) = k
            /\ (\A i \in 1..k :
                    /\ SpanHasValue(blockSheet, "Name", spans[i][1], spans[i][2])
                    /\ SpanHasValue(blockSheet, "User ID", spans[i][1], spans[i][2]))
                 => Len(blockEmployees) = k
            /\ blockEmployees = parseSingleEmployeeAttendanceSheet(blockSheet, today)

\* Anchors at B, Q and AF, found in another order than the column order:
\* three blocks with the spans B..P, Q..AE and AF..AT, and three employees
C22_Witness ==
    /\ blockPc = "done"
    /\ DayHeaderLocations(blockSheet) = << <<3, 16>>, <<3, 31>>, <<4, 1>> >>
    /\ blockSpans = << <<1, 15>>, <<16, 30>>, <<31, 45>> >>
    /\ Len(blockEmployees) = 3
    /\ blockEmployees[1].name = "Gil Ong" /\ blockEmployees[3].name = "Ian Tan"

\* The number of days of a calendar month of the Gregorian calendar
CalendarDays(year, monthNum) ==
    IF monthNum = 2
    THEN (IF year \in {2000, 2024} THEN 29 ELSE 28)
    ELSE <<31, 0, 31, 30, 31, 30, 31, 31, 30, 31, 30, 31>>[monthNum]

\* C23: for every employee with a timeCard and every valid month,
\* calculateEmployeeTimeSummary returns daysInMonth equal to the number of
\* days of that month and a timeSummary of exactly that many entries whose
\* day fields are 1, 2, ..., daysInMonth in order, also for the days that
\* have no record in the timeCard.
C23_SummaryCoversMonth ==
    (summaryOutput # NoSummary /\ ~summaryInput.employee.isNull
        /\ summaryInput.month # "")
      => \E ym \in SummaryMonths :
            /\ summaryInput.month = MonthText(ym.y, ym.m)
            /\ summaryOutput.daysInMonth = CalendarDays(ym.y, ym.m)
            /\ Len(summaryOutput.timeSummary) = CalendarDays(ym.y, ym.m)
            /\ \A d \in 1..Len(summaryOutput.timeSummary) :
                  summaryOutput.timeSummary[d].day = d

\* February 2024 for an employee whose timeCard holds the days 1 and 3 only:
\* 29 entries, the one of day 2 without a time and the one of day 3 with its
\* arrival
C23_Witness ==
    /\ summaryInput.month = "2024-02"
    /\ Len(summaryInput.employee.timeCard) = 2
    /\ summaryOutput.daysInMonth = 29
    /\ Len(summaryOutput.timeSummary) = 29
    /\ summaryOutput.timeSummary[2].am_arrival = UNDEF
    /\ summaryOutput.timeSummary[3].am_arrival = "08:15"
    /\ summaryOutput.timeSummary[29].dateWeekday = "29 Thu"

\* ------------------------------------------------------------------------
\* getEmployeeDataFromDb: the stored employees with a record for every day
\* ------------------------------------------------------------------------
\* daysInMonth of emp.month: 31 when the text is no year-month
DbDaysInMonth(month) ==
    IF \E ym \in ModelMonths : MonthText(ym.y, ym.m) = month
    THEN JsDaysInMonth(SplitMonth(month).y, SplitMonth(month).m)
    ELSE 31

\* The record of a day without a stored row
DefaultDayRecord(year, monthNum, day) ==
    LET dayOfWeek == JsGetDay(year, monthNum, day)
        dayName == IF dayOfWeek = 6 THEN "Saturday"
                   ELSE IF dayOfWeek = 0 THEN "Sunday" ELSE ""
    IN [day |-> day, dateWeekday |-> FormatDateWeekday(year, monthNum, day),
        am_arrival |-> "", am_departure |-> "",
        pm_arrival |-> "", pm_departure |-> "",
        ot_arrival |-> "", ot_departure |-> "",
        total_hours |-> "", late |-> "", early_out |-> "", overtime |-> "",
        remarks |-> "", undertime_hours |-> dayName, undertime_minutes |-> dayName]

\* SELECT * FROM time_records WHERE employee_id = ? ORDER BY day ASC, put in
\* dailyRecordMap by day
StoredDayRecords(rows, id) ==
    [d \in {row.columns.day : row \in {x \in rows : x.columns.employee_id = id}} |->
        (CHOOSE row \in rows :
            /\ row.columns.employee_id = id /\ row.columns.day = d
            /\ \A x \in rows :
                 (x.columns.employee_id = id /\ x.columns.day = d) => x.id <= row.id
        ).columns]

\* formDataForDisplay of a row of table employees: the entries of the days
\* 1..daysInMonth in that order
FormDataForDisplay(rows, emp) ==
    LET dailyRecordMap == StoredDayRecords(rows, emp.id)
        ym == SplitMonth(emp.month)
    IN [day \in 1..DbDaysInMonth(emp.month) |->
          IF day \in DOMAIN dailyRecordMap THEN dailyRecordMap[day]
          ELSE DefaultDayRecord(ym.y, ym.m, day)]

\* The rows of table employees a name query and a month query select: name
\* LIKE %query% (no name of the model is a part of another), month = query
QueriedEmployees(rows, nameQuery, monthQuery) ==
    {emp \in rows : /\ nameQuery = "" \/ emp.name = nameQuery
                    /\ monthQuery = "" \/ emp.month = monthQuery}

\* The results of getEmployeeDataFromDb(nameQuery, monthQuery)
getEmployeeDataFromDb(empRows, recordRows, nameQuery, monthQuery) ==
    {[empId |-> emp.userId, empName |-> emp.name, department |-> emp.department,
      month |-> emp.month, formData |-> FormDataForDisplay(recordRows, emp),
      attendanceDateRange |-> emp.attendanceDateRange,
      tablingDate |-> emp.tablingDate] :
        emp \in QueriedEmployees(empRows, nameQuery, monthQuery)}


\* The time fields and the metrics of a day record
DayValues(record) ==
    <<record.am_arrival, record.am_departure, record.pm_arrival,
      record.pm_departure, record.ot_arrival, record.ot_departure,
      record.total_hours, record.late, record.early_out, record.overtime,
      record.remarks, record.undertime_hours, record.undertime_minutes>>

\* The record set read back has the days of the timeCard in its order, and
\* for every day the values of the timeCard, or the default values when the
\* day has no stored row
ReadsBack(timeCard, formData, stored, ym) ==
    /\ Len(formData) = Len(timeCard)
    /\ \A i \in 1..Len(timeCard) :
          /\ i <= Len(formData) => formData[i].day = timeCard[i].day
          /\ i <= Len(formData) =>
                IF timeCard[i].day \in stored
                THEN DayValues(formData[i]) = DayValues(timeCard[i])
                ELSE formData[i] = DefaultDayRecord(ym.y, ym.m, timeCard[i].day)

\* The last block or row group of a key in the parsed employees of a load
IsLastOfKey(list, i) ==
    \A j \in (i + 1)..Len(list) :
        ~(list[j].userId = list[i].userId /\ list[j].name = list[i].name
          /\ list[j].month = list[i].month)

\* C24: round trip. For every EmployeeAttendance persisted by a load,
\* reading it back with getEmployeeDataFromDb yields, for its month, a
\* day-indexed record set with the same days in the same order and, for
\* every day, the same values of the time fields and of the metrics as the
\* timeCard that was persisted, days absent from storage being filled with
\* default values.
C24_RoundTrip ==
    (pc = "idle" /\ lastLoad.outcome = "stored") =>
        \A i \in 1..Len(Parsed) :
            IsLastOfKey(Parsed, i) =>
                \A got \in getEmployeeDataFromDb(employees, time_records,
                                                 Parsed[i].name, Parsed[i].month) :
                    got.empId = Parsed[i].userId =>
                        ReadsBack(Parsed[i].timeCard, got.formData,
                            {row.columns.day :
                                row \in {x \in time_records :
                                    \E emp \in ExistingEmployee(employees, Parsed[i]) :
                                        x.columns.employee_id = emp.id}},
                            SplitMonth(Parsed[i].month))

\* The latest two loads were given the same file
SameFileLoadedTwice == lastLoad.file # 0 /\ prevLoad.file = lastLoad.file

\* What the latest load and the one before it read from their file
LastReading == ParseTable[lastLoad.file][lastLoad.today]
PrevReading == ParseTable[prevLoad.file][prevLoad.today]

\* A block-format worksheet with a day-anchor header and without a parsable
\* attendance date range: its employees take their month from the clock
SheetReadsClock(sheet) ==
    /\ sheet.hasRef
    /\ Len(DayHeaderLocations(sheet)) > 0
    /\ DateRangeMatch(SheetCaptions(sheet, StartMonth).attendanceDateRange) = ""

\* A block-format workbook with such a worksheet
ReadsClock(workbook) ==
    /\ workbook.readable /\ Len(workbook.sheets) > 0
    /\ ~isSimpleBiometricFormat(workbook.sheets[1])
    /\ \E i \in 1..Len(workbook.sheets) : SheetReadsClock(workbook.sheets[i])

\* The files of the model that are such workbooks
ClockReaders == {f \in FileIds : ReadsClock(Files[f])}

\* C25 as stated: a load is a pure function of its input file, two loads of
\* the same file produce the same EmployeeAttendance result set (same
\* employees, same month, same timeCards) whatever the time at which each
\* load runs and whatever loads ran before it.
C25_LoadIsFunctionOfFile == SameFileLoadedTwice => LastReading = PrevReading

\* C25 amended: two loads of the same file produce the same result set
\* whatever loads ran before them, and whatever the time at which each runs
\* when the process clock shows the same calendar month at both loads or no
\* block-format worksheet of the file lacks a parsable attendance date range.
C25_LoadIsFunctionOfFileAndMonth ==
    (SameFileLoadedTwice
        /\ (lastLoad.today = prevLoad.today \/ lastLoad.file \notin ClockReaders))
      => LastReading = PrevReading

\* A file whose worksheets carry their date range was loaded in two different
\* calendar months, after a load of another file, and gave the same employees
C25_Witness ==
    /\ SameFileLoadedTwice /\ loads = 3
    /\ lastLoad.today # prevLoad.today
    /\ lastLoad.file \notin ClockReaders
    /\ LastReading.outcome = "parsed" /\ Len(LastReading.employees) = 2
    /\ LastReading = PrevReading

\* A file with a worksheet without date range was loaded in two different
\* calendar months: the employees of the two loads differ in their month
C25_WitnessOfClock ==
    /\ SameFileLoadedTwice /\ lastLoad.today # prevLoad.today
    /\ lastLoad.file \in ClockReaders
    /\ Len(LastReading.employees) > 0
    /\ LastReading.employees[1].month # PrevReading.employees[1].month

\* The day cell of a row is blank: the row has no day cell, or an empty one
BlankDayCell(R) ==
    LET cell == CellAt(scanInput.sheet, R, scanInput.dayColIndex)
    IN cell.t = "none" \/ (cell.t = "s" /\ cell.s = "")

\* The first row strictly below the data start row whose day cell is blank,
\* the row after the last one when there is none
FirstBlankRow ==
    LET blanks == {R \in (scanInput.timecardDataStartRow + 1)..scanInput.sheet.er :
                      BlankDayCell(R)}
    IN IF blanks = {} THEN scanInput.sheet.er + 1
       ELSE CHOOSE R \in blanks : \A Q \in blanks : R <= Q

\* The rows above that blank row whose day number is one of the report month
RowsWithDay(day) ==
    {R \in scanInput.timecardDataStartRow..(FirstBlankRow - 1) :
        DayOfCell(CellAt(scanInput.sheet, R, scanInput.dayColIndex)) = day}

\* C26: the rows of a block are read downward from the data start row and
\* the scan stops at the first row strictly below the data start row whose
\* day-anchor cell is blank, so no row at or below that blank row contributes
\* a day record; a blank day cell in the data start row itself does not stop
\* the scan; a row whose day number is outside 1..daysInMonth(reportMonth) is
\* skipped without stopping the scan.
C26_RowScan ==
    scanPc = "done" =>
        LET ym == SplitMonth(scanInput.reportMonth)
        IN /\ scanRow = FirstBlankRow
           /\ DOMAIN scanRecords =
                {day \in 1..JsDaysInMonth(ym.y, ym.m) : RowsWithDay(day) # {}}

\* The scan of a block whose day cells hold no number 0 below the data start
\* row
RowScanWithoutZero ==
    (\A R \in (scanInput.timecardDataStartRow + 1)..scanInput.sheet.er :
        CellAt(scanInput.sheet, R, scanInput.dayColIndex) # Num(0))
      => C26_RowScan

\* C27: a POST /upload request that carries no file is answered with HTTP
\* status 400 by the application (route handler followed by the central
\* error-handling middleware), and no load is performed for it.
C27_UploadWithoutFileIs400 ==
    (reqStage = "answered" /\ reqKind = "POST /upload without file")
      => (resStatus = 400 /\ reqLoads = 0)

\* C28: the Express server is started only once. Over any sequence of
\* createWindow invocations (the one at application ready and every later one
\* triggered by an 'activate' event when no window is open), listen on port
\* 3000 is called at most once, so a later createWindow never reaches the
\* server error handler that quits the application.
C28_ServerStartedOnce ==
    /\ listenCalls <= 1
    /\ \A w \in pendingErrors : w = 1

\* The day of generateInput is a weekday whose undertime hours or minutes is
\* the empty text
WeekdayWithoutUndertime ==
    /\ JsGetDay(generateInput.year, generateInput.monthNum, generateInput.day)
         \notin {0, 6}
    /\ generateInput.undertime[1] = "" \/ generateInput.undertime[2] = ""

\* The record of the day of generateInput: its AM and PM times
RecordOfDay ==
    RawRecord(generateInput.am_arrival, generateInput.am_departure,
              generateInput.pm_arrival, generateInput.pm_departure,
              "", "", UNDEF, UNDEF, UNDEF, UNDEF)

\* The metrics of the daily-metrics calculator for the times of the day
MetricsOfDay ==
    calculateDailyMetricsFromTimes(RecordOfDay,
        generateInput.year, generateInput.monthNum, generateInput.day)

\* The minutes worked in the two sessions of the day
WorkedMinutesOfDay ==
    (PairSeconds(TimeOrNull(generateInput.am_arrival),
                 TimeOrNull(generateInput.am_departure))
     + PairSeconds(TimeOrNull(generateInput.pm_arrival),
                   TimeOrNull(generateInput.pm_departure))) \div 60

\* C29: in POST /generate and POST /generate-batch, for every weekday whose
\* submitted (or stored) undertime hours or minutes is the empty string, the
\* undertime shown for that day is the one recalculated by the daily-metrics
\* calculator from that day's AM and PM times: with at least one time entered
\* and fewer than 480 worked minutes it is the shortfall in hours and
\* minutes, not empty.
C29_UndertimeIsRecalculated ==
    (generateShown # NoShown /\ WeekdayWithoutUndertime) =>
        /\ generateShown = <<DisplayHours(MetricsOfDay.undertime_hours),
                             DisplayMinutes(MetricsOfDay.undertime_minutes)>>
        /\ (HasActualWorkEntries(RecordOfDay) /\ WorkedMinutesOfDay < 480)
              => generateShown = <<NumStr((480 - WorkedMinutesOfDay) \div 60),
                                   Pad2((480 - WorkedMinutesOfDay) % 60)>>

\* A weekday without a time shows no undertime, as the calculator has it
RecalculatedWithoutTimes ==
    (generateShown # NoShown /\ WeekdayWithoutUndertime
        /\ generateInput.am_arrival = "" /\ generateInput.am_departure = ""
        /\ generateInput.pm_arrival = "" /\ generateInput.pm_departure = "")
      => generateShown = <<"", "">>

\* No two employee rows have the same (userId, name, month)
EmployeeKeysUnique ==
    \A r1, r2 \in employees :
        (r1.userId = r2.userId /\ r1.name = r2.name /\ r1.month = r2.month)
            => r1 = r2

\* No two day records have the same (employee row, day)
DayKeysUnique ==
    \A t1, t2 \in time_records :
        (t1.columns.employee_id = t2.columns.employee_id
            /\ t1.columns.day = t2.columns.day) => t1 = t2

\* C30: store keys stay unique: after any sequence of file loads (any files,
\* in any order, including loads that fail), the store never holds two
\* employee rows with the same (userId, name, month) and never holds two day
\* records with the same (employee row, day), also when one file contains the
\* same employee key in more than one block or worksheet.
C30_StoreKeysUnique == EmployeeKeysUnique /\ DayKeysUnique

\* A file with the same employee key in two worksheets was stored after a
\* load that failed in its transaction, and the store holds day records
C30_Witness ==
    /\ pc = "idle" /\ lastLoad.outcome = "stored"
    /\ prevLoad.outcome = "persistFailed"
    /\ \E i \in 1..Len(Parsed) : Cardinality(WithKey(Parsed, Parsed[i])) > 1
    /\ \E t \in time_records :
          \E i \in 1..Len(Parsed) :
             \E row \in ExistingEmployee(employees, Parsed[i]) :
                /\ Cardinality(WithKey(Parsed, Parsed[i])) > 1
                /\ t.columns.employee_id = row.id

=============================================================================
